---------------------------- MODULE Spec2Model ----------------------------
(***************************************************************************)
(* A model of the ria-intel ETL pipeline:                                  *)
(*   src/src/riaintel/etl/etl_utils.py  (perfect_merge, load_silver)       *)
(*   src/scripts/build_silver.py        (per-period merge, silver write)   *)
(*   src/scripts/build_gold.py          (prepare_silver, reducers, gold)   *)
(*                                                                         *)
(* Text values are sequences of one-character strings, so that trimming,   *)
(* upper-casing, parsing and string comparison are computed, not assumed.  *)
(* A missing value (None / NaN / <NA>) of a text column is NA; a missing   *)
(* value of a numeric or date column is NaN / NaT (a negative number, no   *)
(* firm identifier or date of the model is negative).                      *)
(***************************************************************************)
EXTENDS Integers, Sequences, FiniteSets, TLC

VARIABLES
    \* ---- perfect_merge ----
    left,        \* the left table  [columns, rows]
    right,       \* the right table [columns, rows]
    mergeOut,    \* outcome of perfect_merge: [status, ...]
    mpc,         \* "idle" | "call" | "returned" | "raised"
    \* ---- build_gold ----
    silver,      \* the SILVER table handed to prepare_silver
    prepared,    \* outcome of prepare_silver: [status, table | error]
    df,          \* prepared rows handed to a reducer or a notice builder
    per_period,  \* outcome of _latest_per_period(df)
    per_crd,     \* outcome of _latest_per_crd(df)
    notice_wide, \* outcome of build_notice_filings_wide
    notice_long, \* outcome of build_notice_filings_long
    \* ---- build_gold.main ----
    pc,          \* the step main is at, "done", "failed", or "idle"
    traceback,   \* the exception that ended the run: <<step, error>>, or << >>
    gold_dir,    \* GOLD_DIR: the files written, [name, table]
    firm_master,          \* outcome of build_firm_master
    firm_timeseries,      \* outcome of build_firm_timeseries
    firms_latest,         \* outcome of build_firms_latest
    notice_state_counts,  \* outcome of build_notice_state_counts
    \* ---- build_silver ----
    silver_dir,      \* SILVER: [exists, files], a file is [partition, name, table]
    ia_base_merged,  \* the frame of the most recent build_silver run
    runs             \* number of build_silver runs so far

mergeVars == <<left, right, mergeOut, mpc>>

prepVars == <<silver, prepared>>

reduceVars == <<df, per_period, per_crd>>

noticeVars == <<notice_wide, notice_long>>

goldVars == <<prepVars, reduceVars, noticeVars>>

mainVars ==
    <<pc, traceback, gold_dir, firm_master, firm_timeseries, firms_latest,
      notice_state_counts>>

silverVars == <<silver_dir, ia_base_merged, runs>>

runVars == <<mainVars, silverVars>>

vars == <<mergeVars, goldVars, runVars>>

-----------------------------------------------------------------------------
(* Text helpers                                                            *)

NA == <<"<NA>">>

\* Python's None where a column is absent (DataFrame.get)
None == <<"<None>">>

IsNA(s) == s = NA

Space == " "

RECURSIVE LStrip(_)
LStrip(s) ==
    IF s # << >> /\ Head(s) = Space THEN LStrip(Tail(s)) ELSE s

RECURSIVE RStrip(_)
RStrip(s) ==
    IF s # << >> /\ s[Len(s)] = Space THEN RStrip(SubSeq(s, 1, Len(s) - 1)) ELSE s

\* str.strip()
Strip(s) == RStrip(LStrip(s))

SeqToSet(s) == {s[i] : i \in 1..Len(s)}

\* all sequences over S of length 0..n
SeqsUpTo(S, n) == UNION {[1..k -> S] : k \in 0..n}

-----------------------------------------------------------------------------
(* etl_utils.py: require_keys, enforce_nonblank, perfect_merge             *)

MaxMergeRows == 3

KEY == "FILING_ID"

K42 == <<"4", "2">>
K43 == <<"4", "3">>
K44 == <<"4", "4">>

\* key cells the two tables may hold: three keys, a whitespace-only string
\* and a missing value
KeyTexts == {K42, K43, K44, <<" ">>, NA}

\* require_keys: the columns of `keys` the table lacks
MissingKeys(tbl, keys) == {k \in keys : k \notin tbl.columns}

\* enforce_nonblank: some cell of column c is NaN or whitespace-only
HasBlank(tbl, c) ==
    \E i \in 1..Len(tbl.rows) :
        IsNA(tbl.rows[i][c]) \/ Strip(tbl.rows[i][c]) = << >>

\* left.merge(right, on=on, how="inner"): one output row per pair of a left
\* and a right row with equal key, in the order of the left rows and, for one
\* left row, of the right rows.  An output row is named by the positions
\* (l, r) of the two rows it combines.
InnerMerge(l, r, on) ==
    LET nl == Len(l.rows)
        nr == Len(r.rows)
        pair(k) == [l |-> ((k - 1) \div nr) + 1, r |-> ((k - 1) % nr) + 1]
        all == [k \in 1..(nl * nr) |-> pair(k)]
    IN SelectSeq(all, LAMBDA p : l.rows[p.l][on] = r.rows[p.r][on])

\* the row-count test of perfect_merge
CountsDiffer_LeftOnly(m, l, r) == Len(m) # Len(l.rows)

CountsDiffer(m, l, r) == Len(m) # Len(l.rows) \/ Len(m) # Len(r.rows)

perfect_merge(l, r, on) ==
    IF MissingKeys(l, {on}) # {} THEN
        [status |-> "raised", error |-> "missing_columns", side |-> "left"]
    ELSE IF MissingKeys(r, {on}) # {} THEN
        [status |-> "raised", error |-> "missing_columns", side |-> "right"]
    ELSE IF HasBlank(l, on) THEN
        [status |-> "raised", error |-> "blank", side |-> "left"]
    ELSE IF HasBlank(r, on) THEN
        [status |-> "raised", error |-> "blank", side |-> "right"]
    ELSE
        LET m == InnerMerge(l, r, on)
        IN IF CountsDiffer(m, l, r)
           THEN [status |-> "raised", error |-> "imperfect",
                 L |-> Len(l.rows), R |-> Len(r.rows), M |-> Len(m)]
           ELSE [status |-> "returned", rows |-> m]

\* tables of the model: with the key column (rows hold a key cell) or without
KeyedTables ==
    {[columns |-> {KEY}, rows |-> rs] :
        rs \in SeqsUpTo([{KEY} -> KeyTexts], MaxMergeRows)}

UnkeyedTables ==
    {[columns |-> {"CRD"}, rows |-> rs] :
        rs \in SeqsUpTo([{"CRD"} -> {K42}], 1)}

MergeTables == KeyedTables \cup UnkeyedTables

NoTable == [columns |-> {}, rows |-> << >>]

NoResult == [status |-> "none"]

MergeIdle ==
    /\ left = NoTable
    /\ right = NoTable
    /\ mergeOut = NoResult
    /\ mpc = "idle"

PrepIdle ==
    /\ silver = NoTable
    /\ prepared = NoResult

ReduceIdle ==
    /\ df = NoTable
    /\ per_period = NoResult
    /\ per_crd = NoResult

NoticeIdle ==
    /\ notice_wide = NoResult
    /\ notice_long = NoResult

GoldIdle == PrepIdle /\ ReduceIdle /\ NoticeIdle

NoTraceback == << >>

MainIdle ==
    /\ pc = "idle"
    /\ traceback = NoTraceback
    /\ gold_dir = {}
    /\ firm_master = NoResult
    /\ firm_timeseries = NoResult
    /\ firms_latest = NoResult
    /\ notice_state_counts = NoResult

NoDirectory == [exists |-> FALSE, files |-> {}]

SilverIdle ==
    /\ silver_dir = NoDirectory
    /\ ia_base_merged = NoTable
    /\ runs = 0

RunIdle == MainIdle /\ SilverIdle

InitMerge ==
    /\ GoldIdle
    /\ RunIdle
    /\ left \in MergeTables
    /\ right \in MergeTables
    /\ mergeOut = NoResult
    /\ mpc = "call"

PerfectMerge ==
    /\ mpc = "call"
    /\ mergeOut' = perfect_merge(left, right, KEY)
    /\ mpc' = mergeOut'.status
    /\ UNCHANGED <<left, right>>
    /\ UNCHANGED <<goldVars, runVars>>

NextMerge == PerfectMerge

SpecMerge == InitMerge /\ [][NextMerge]_vars


-----------------------------------------------------------------------------
(* Claims about perfect_merge                                              *)

KeyOf(tbl, i) == tbl.rows[i][KEY]

\* the table has the key column and no missing or whitespace-only key
\* (stated on the cells, without the code's strip)
Joinable(tbl) ==
    /\ KEY \in tbl.columns
    /\ \A i \in 1..Len(tbl.rows) :
        /\ KeyOf(tbl, i) # NA
        /\ \E k \in 1..Len(KeyOf(tbl, i)) : KeyOf(tbl, i)[k] # " "

\* the pairs (left row, right row) with equal key
MatchingPairs ==
    {p \in (1..Len(left.rows)) \X (1..Len(right.rows)) :
        KeyOf(left, p[1]) = KeyOf(right, p[2])}

UniqueKeys(tbl) ==
    \A i, j \in 1..Len(tbl.rows) : KeyOf(tbl, i) = KeyOf(tbl, j) => i = j

KeySet(tbl) == {KeyOf(tbl, i) : i \in 1..Len(tbl.rows)}

\* C1: whenever perfect_merge returns a table, the join is a loss-less 1:1
\* correspondence: every key of either side occurs exactly once on its own
\* side and exactly once on the other, and every input row appears in exactly
\* one row of the result.
C1_ReturnedMergeIsOneToOne ==
    mpc = "returned" =>
        /\ UniqueKeys(left) /\ UniqueKeys(right)
        /\ KeySet(left) = KeySet(right)
        /\ \A i \in 1..Len(left.rows) :
            Cardinality({k \in 1..Len(mergeOut.rows) : mergeOut.rows[k].l = i}) = 1
        /\ \A j \in 1..Len(right.rows) :
            Cardinality({k \in 1..Len(mergeOut.rows) : mergeOut.rows[k].r = j}) = 1

\* C2: for inputs that both hold the key column with no blank key,
\* perfect_merge returns exactly when the number of merged rows equals
\* len(left) and len(right), the returned table has that many rows, and
\* otherwise it raises the error carrying the counts L, R, M; unique keys
\* with equal key sets return a table of that size, and left (42, 43)
\* against right (42) raises.
C2_ReturnsIffCountsAgree ==
    (mpc # "call" /\ Joinable(left) /\ Joinable(right)) =>
        LET M == Cardinality(MatchingPairs)
            L == Len(left.rows)
            R == Len(right.rows)
        IN  /\ mpc \in {"returned", "raised"}
            /\ (mpc = "returned") <=> (M = L /\ M = R)
            /\ mpc = "returned" => Len(mergeOut.rows) = M
            /\ mpc = "raised" =>
                /\ mergeOut.error = "imperfect"
                /\ mergeOut.L = L /\ mergeOut.R = R /\ mergeOut.M = M
            /\ (UniqueKeys(left) /\ UniqueKeys(right) /\ KeySet(left) = KeySet(right))
                => (mpc = "returned" /\ Len(mergeOut.rows) = L)
            /\ ([i \in 1..L |-> KeyOf(left, i)] = <<K42, K43>>
                /\ [j \in 1..R |-> KeyOf(right, j)] = <<K42>>)
                => mpc = "raised"

\* the scenario of the spec: a 2-row left (42, 43) against a 1-row right (42)
\* raises with the counts L=2 R=1 M=1
C2_Witness ==
    /\ mpc = "raised"
    /\ Joinable(left) /\ Joinable(right)
    /\ [i \in 1..Len(left.rows) |-> KeyOf(left, i)] = <<K42, K43>>
    /\ [j \in 1..Len(right.rows) |-> KeyOf(right, j)] = <<K42>>
    /\ mergeOut.error = "imperfect"
    /\ mergeOut.L = 2 /\ mergeOut.R = 1 /\ mergeOut.M = 1


-----------------------------------------------------------------------------
(* Characters, comparison and parsing of text                              *)

\* the characters of the model's cells, in code-point order
Chars ==
    <<" ", "-", ".", "/", "0", "1", "2", "3", "4", "5", "6", "7", "8", "9",
      "A", "B", "C", "D", "E", "F", "G", "H", "I", "J", "K", "L", "M",
      "N", "O", "P", "Q", "R", "S", "T", "U", "V", "W", "X", "Y", "Z", "_",
      "a", "b", "c", "d", "e", "f", "g", "h", "i", "j", "k", "l", "m",
      "n", "o", "p", "q", "r", "s", "t", "u", "v", "w", "x", "y", "z", "|">>

OrdOf == [c \in SeqToSet(Chars) |-> CHOOSE i \in 1..Len(Chars) : Chars[i] = c]

Ord(c) == OrdOf[c]

IsDigit(c) == Ord(c) >= Ord("0") /\ Ord(c) <= Ord("9")

DigitVal(c) == Ord(c) - Ord("0")

AllDigits(s) == \A i \in 1..Len(s) : IsDigit(s[i])

\* the value of a string of digits
RECURSIVE DigitsVal(_)
DigitsVal(s) ==
    IF s = << >> THEN 0
    ELSE 10 * DigitsVal(SubSeq(s, 1, Len(s) - 1)) + DigitVal(s[Len(s)])

\* str.upper() of one character and of a string
UpperChar(c) ==
    IF Ord(c) >= Ord("a") /\ Ord(c) <= Ord("z") THEN Chars[Ord(c) - (Ord("a") - Ord("A"))] ELSE c

Upper(s) == [i \in 1..Len(s) |-> UpperChar(s[i])]

\* s < t in the lexicographic (code point) order of strings
RECURSIVE TextLess(_, _)
TextLess(s, t) ==
    IF t = << >> THEN FALSE
    ELSE IF s = << >> THEN TRUE
    ELSE IF Head(s) # Head(t) THEN Ord(Head(s)) < Ord(Head(t))
    ELSE TextLess(Tail(s), Tail(t))

\* a missing number (NaN) and a missing date (NaT)
NaN == [whole |-> -1, frac |-> << >>]

NaT == -1

RECURSIVE DropTrailingZeros(_)
DropTrailingZeros(s) ==
    IF s # << >> /\ s[Len(s)] = "0"
    THEN DropTrailingZeros(SubSeq(s, 1, Len(s) - 1)) ELSE s

DotAt(s) == {i \in 1..Len(s) : s[i] = "."}

\* pd.to_numeric(..., errors="coerce") of one cell, for unsigned decimal
\* text: digits, or digits "." digits.  The number is its whole part and its
\* fraction digits (trailing zeros dropped); any other text coerces to NaN.
to_numeric(s) ==
    IF IsNA(s) \/ s = << >> THEN NaN
    ELSE IF AllDigits(s) THEN [whole |-> DigitsVal(s), frac |-> << >>]
    ELSE IF Cardinality(DotAt(s)) = 1 THEN
        LET d == CHOOSE i \in DotAt(s) : TRUE
            w == SubSeq(s, 1, d - 1)
            f == SubSeq(s, d + 1, Len(s))
        IN IF w # << >> /\ f # << >> /\ AllDigits(w) /\ AllDigits(f)
           THEN [whole |-> DigitsVal(w), frac |-> DropTrailingZeros(f)]
           ELSE NaN
    ELSE NaN

IsNaN(x) == x = NaN

\* the float holds an integer value (what astype("Int64") accepts)
IsIntegral(x) == x.frac = << >>

IsLeap(y) == (y % 4 = 0 /\ y % 100 # 0) \/ y % 400 = 0

DaysIn(y, m) ==
    IF m = 2 THEN (IF IsLeap(y) THEN 29 ELSE 28)
    ELSE IF m \in {4, 6, 9, 11} THEN 30 ELSE 31

\* a calendar date as the number yyyymmdd, NaT when the fields name no date
MakeDate(y, m, d) ==
    IF m >= 1 /\ m <= 12 /\ d >= 1 /\ d <= DaysIn(y, m)
    THEN y * 10000 + m * 100 + d ELSE NaT

\* pd.to_datetime(cell, format="%Y%m%d", errors="coerce"): four year digits,
\* two month digits, two day digits
to_datetime_Ymd(s) ==
    IF IsNA(s) THEN NaT
    ELSE IF Len(s) = 8 /\ AllDigits(s)
    THEN MakeDate(DigitsVal(SubSeq(s, 1, 4)), DigitsVal(SubSeq(s, 5, 6)),
                  DigitsVal(SubSeq(s, 7, 8)))
    ELSE NaT

\* pd.to_datetime(cell, errors="coerce") without a format, for the shapes of
\* the model's DATESUBMITTED cells: yyyymmdd, yyyy-mm-dd, anything else NaT
to_datetime_any(s) ==
    IF IsNA(s) THEN NaT
    ELSE IF Len(s) = 10 /\ s[5] = "-" /\ s[8] = "-"
            /\ AllDigits(SubSeq(s, 1, 4)) /\ AllDigits(SubSeq(s, 6, 7))
            /\ AllDigits(SubSeq(s, 9, 10))
    THEN MakeDate(DigitsVal(SubSeq(s, 1, 4)), DigitsVal(SubSeq(s, 6, 7)),
                  DigitsVal(SubSeq(s, 9, 10)))
    ELSE to_datetime_Ymd(s)

\* Series.dt.normalize(): the time of day is set to midnight; a date of the
\* model has no time of day
normalize(d) == d

-----------------------------------------------------------------------------
(* DataFrame operations used by build_gold.py                              *)

\* the rows at the positions idx, in their order
RowsAt(rows, idx) ==
    LET F[i \in 0..Len(rows)] ==
            IF i = 0 THEN << >>
            ELSE IF i \in idx THEN Append(F[i - 1], rows[i]) ELSE F[i - 1]
    IN F[Len(rows)]

CmpAsc(x, y) == IF x < y THEN -1 ELSE IF x > y THEN 1 ELSE 0

\* one integer or date column, ascending or descending; a missing value
\* (negative) sorts last either way (na_position="last")
CmpNumber(x, y, ascending) ==
    IF x = y THEN 0
    ELSE IF x < 0 THEN 1
    ELSE IF y < 0 THEN -1
    ELSE IF ascending THEN CmpAsc(x, y) ELSE CmpAsc(y, x)

\* one string column, by string comparison; <NA> sorts last either way
CmpText(s, t, ascending) ==
    IF s = t THEN 0
    ELSE IF s = NA THEN 1
    ELSE IF t = NA THEN -1
    ELSE IF TextLess(s, t) = ascending THEN -1 ELSE 1

\* the columns that hold text; the others hold integers or dates
TextColumns == {"filing_id", "Filing ID", "State", "1A"}

CmpCell(c, x, y, ascending) ==
    IF c \in TextColumns THEN CmpText(x, y, ascending) ELSE CmpNumber(x, y, ascending)

\* the result of the first sort key that does not tie
FirstNonZero(cs) ==
    IF \A i \in 1..Len(cs) : cs[i] = 0 THEN 0
    ELSE cs[CHOOSE i \in 1..Len(cs) :
                cs[i] # 0 /\ \A j \in 1..(i - 1) : cs[j] = 0]

\* rows a and b compared on the columns `by` in turn
RowCmp(a, b, by, ascending) ==
    FirstNonZero([k \in 1..Len(by) |-> CmpCell(by[k], a[by[k]], b[by[k]], ascending[k])])

\* DataFrame.sort_values(by, ascending=..., na_position="last") on several
\* columns: a stable sort, rows whose sort columns tie keep their order of
\* arrival
sort_values(rows, by, ascending) ==
    LET n == Len(rows)
        before(i, j) ==
            LET c == RowCmp(rows[i], rows[j], by, ascending)
            IN c < 0 \/ (c = 0 /\ i < j)
        rank(i) == Cardinality({j \in 1..n : before(j, i)}) + 1
    IN [k \in 1..n |-> rows[CHOOSE i \in 1..n : rank(i) = k]]

\* the cells of row r in the columns `subset`
OnColumns(r, subset) == [c \in subset |-> r[c]]

\* DataFrame.drop_duplicates(subset=..., keep="first")
drop_duplicates(rows, subset) ==
    RowsAt(rows, {i \in 1..Len(rows) :
        \A j \in 1..(i - 1) :
            OnColumns(rows[j], subset) # OnColumns(rows[i], subset)})

\* the ordering key:
\* sort_values(["crd", "report_date", "date_submitted", "filing_id"],
\*             ascending=[True, False, False, False], na_position="last")
OrderingBy_NoTieBreak == <<"crd", "report_date">>

OrderingBy == <<"crd", "report_date", "date_submitted", "filing_id">>

OrderingAscending_DateAsc == <<TRUE, TRUE, FALSE, FALSE>>

OrderingAscending == <<TRUE, FALSE, FALSE, FALSE>>

\* sort_values(["crd", "report_date"])
PeriodBy == <<"crd", "report_date">>

PeriodAscending == <<TRUE, TRUE>>

-----------------------------------------------------------------------------
(* build_gold.py: prepare_silver                                           *)

HelperColumns == {"crd", "report_date", "date_submitted", "filing_id"}

\* DataFrame.get(column): the cell, or a missing value when the table has no
\* such column
Cell(tbl, r, c) == IF c \in tbl.columns THEN r[c] ELSE NA

\* working.assign(crd=..., report_date=..., date_submitted=..., filing_id=...)
WithKeys(tbl, r) ==
    [c \in tbl.columns \cup HelperColumns |->
        CASE c = "crd" -> to_numeric(r["1E1"])
          [] c = "report_date" -> normalize(to_datetime_Ymd(r["REPORT_DATE"]))
          [] c = "date_submitted" -> to_datetime_any(Cell(tbl, r, "DATESUBMITTED"))
          [] c = "filing_id" -> Cell(tbl, r, "FILING_ID")
          [] OTHER -> r[c]]

\* working["crd"].astype("Int64")
AsInt64(r) == [r EXCEPT !["crd"] = r["crd"].whole]

\* mask = working["crd"].notna() & working["report_date"].notna()
Keyable(r) == ~IsNaN(r["crd"]) /\ r["report_date"] # NaT

prepare_silver(tbl) ==
    IF tbl.rows = << >> \/ tbl.columns = {} THEN
        [status |-> "returned",
         table |-> [columns |-> HelperColumns, rows |-> << >>]]
    ELSE IF "1E1" \notin tbl.columns THEN
        [status |-> "raised", error |-> "KeyError 1E1"]
    ELSE IF "REPORT_DATE" \notin tbl.columns THEN
        [status |-> "raised", error |-> "KeyError REPORT_DATE"]
    ELSE
        LET working == [i \in 1..Len(tbl.rows) |-> WithKeys(tbl, tbl.rows[i])]
            kept == SelectSeq(working, Keyable)
        IN IF \E i \in 1..Len(kept) : ~IsIntegral(kept[i]["crd"]) THEN
               \* astype("Int64") of a float column with a fractional value
               [status |-> "raised", error |-> "TypeError astype Int64"]
           ELSE
               [status |-> "returned",
                table |-> [columns |-> tbl.columns \cup HelperColumns,
                           rows |-> sort_values([i \in 1..Len(kept) |-> AsInt64(kept[i])],
                                              OrderingBy, OrderingAscending)]]

\* text of cells
T100 == <<"1", "0", "0">>
T200 == <<"2", "0", "0">>
T1p5 == <<"1", ".", "5">>
T100p0 == <<"1", "0", "0", ".", "0">>
Tabc == <<"a", "b", "c">>
D20230101 == <<"2", "0", "2", "3", "0", "1", "0", "1">>
D20230401 == <<"2", "0", "2", "3", "0", "4", "0", "1">>
D20231301 == <<"2", "0", "2", "3", "1", "3", "0", "1">>
D20230115 == <<"2", "0", "2", "3", "0", "1", "1", "5">>
D20230410 == <<"2", "0", "2", "3", "0", "4", "1", "0">>
D2023_04_10 == <<"2", "0", "2", "3", "-", "0", "4", "-", "1", "0">>
F9 == <<"9">>
F10 == <<"1", "0">>

MaxSilverRows == 3

SilverColumns == {"1E1", "REPORT_DATE", "DATESUBMITTED", "FILING_ID"}

\* SILVER rows of the model: firm identifiers that are integers, decimal
\* text, other text or missing; report dates that are dates, 8 digits that
\* name no date, or missing
SilverRowPool ==
    {[c \in SilverColumns |->
        CASE c = "1E1" -> crd
          [] c = "REPORT_DATE" -> rd
          [] c = "DATESUBMITTED" -> D20230115
          [] c = "FILING_ID" -> F9] :
        crd \in {T100, T200, T100p0, T1p5, Tabc, NA},
        rd \in {D20230101, D20230401, D20231301, NA}}

\* tables without one of the required columns, or without the optional ones
OddSilverTables ==
    {[columns |-> cols, rows |-> <<[c \in cols |-> IF c = "1E1" THEN T100 ELSE D20230101]>>] :
        cols \in {{"1E1"}, {"REPORT_DATE"}, {"1E1", "REPORT_DATE"}}}

SilverTables ==
    {[columns |-> SilverColumns, rows |-> rs] :
        rs \in SeqsUpTo(SilverRowPool, MaxSilverRows)}
    \cup OddSilverTables

InitPrepare ==
    /\ MergeIdle
    /\ RunIdle
    /\ ReduceIdle
    /\ NoticeIdle
    /\ silver \in SilverTables
    /\ prepared = NoResult

PrepareSilver ==
    /\ prepared = NoResult
    /\ silver # NoTable
    /\ prepared' = prepare_silver(silver)
    /\ UNCHANGED silver
    /\ UNCHANGED <<mergeVars, reduceVars, noticeVars, runVars>>

NextPrepare == PrepareSilver

SpecPrepare == InitPrepare /\ [][NextPrepare]_vars

-----------------------------------------------------------------------------
(* Claims about prepare_silver                                             *)

CountIn(seq, x) == Cardinality({i \in 1..Len(seq) : seq[i] = x})

\* the firm identifier parses as an integer: a number without fraction
ParsesAsInteger(s) == ~IsNaN(to_numeric(s)) /\ IsIntegral(to_numeric(s))

\* the report date is eight digits that name a calendar date
ParsesAsYmd(s) == to_datetime_Ymd(s) # NaT

\* C3: for every silver table with the columns 1E1 and REPORT_DATE,
\* prepare_silver returns without raising; its output holds exactly the input
\* rows whose firm identifier parses as an integer and whose REPORT_DATE
\* parses as a strict 8-digit date, and every output row has non-null crd
\* and report_date.
C3_PrepareKeepsExactlyKeyableRows ==
    (prepared # NoResult /\ {"1E1", "REPORT_DATE"} \subseteq silver.columns) =>
        /\ prepared.status = "returned"
        /\ LET out == [i \in 1..Len(prepared.table.rows) |->
                         [c \in silver.columns |-> prepared.table.rows[i][c]]]
               want == SelectSeq(silver.rows, LAMBDA r :
                         ParsesAsInteger(r["1E1"]) /\ ParsesAsYmd(r["REPORT_DATE"]))
           IN \A r \in SeqToSet(out) \cup SeqToSet(want) :
                  CountIn(out, r) = CountIn(want, r)
        /\ \A i \in 1..Len(prepared.table.rows) :
            /\ prepared.table.rows[i]["crd"] >= 0
            /\ prepared.table.rows[i]["report_date"] # NaT

-----------------------------------------------------------------------------
(* build_gold.py: _latest_per_period, _latest_per_crd                      *)

\* DataFrame.empty: no rows or no columns
IsEmpty(tbl) == tbl.rows = << >> \/ tbl.columns = {}

PeriodKey == {"crd", "report_date"}

CrdKey == {"crd"}

_latest_per_period(tbl) ==
    IF IsEmpty(tbl) THEN tbl
    ELSE LET ordered == sort_values(tbl.rows, OrderingBy, OrderingAscending)
             latest == drop_duplicates(ordered, PeriodKey)
         IN [tbl EXCEPT !.rows = sort_values(latest, PeriodBy, PeriodAscending)]

_latest_per_crd(tbl) ==
    IF IsEmpty(tbl) THEN tbl
    ELSE LET ordered == sort_values(tbl.rows, OrderingBy, OrderingAscending)
         IN [tbl EXCEPT !.rows = drop_duplicates(ordered, CrdKey)]

MaxPreparedRows == 3

PreparedColumns == HelperColumns \cup {"1A"}

NameX == <<"X">>
NameY == <<"Y">>

\* the tie-break columns and the payload of a prepared row: submission dates
\* that differ or are missing, filing ids that compare differently as strings
\* and as numbers ("9" > "10") or are missing, and two rows that agree on
\* the whole ordering key and differ in column 1A
TieBreaks ==
    {<<20230410, F9, NameX>>, <<20230410, F10, NameX>>, <<20230115, F9, NameX>>,
     <<NaT, F9, NameX>>, <<20230410, NA, NameX>>, <<20230410, F9, NameY>>}

PreparedRow(crd, rd, tb) ==
    [c \in PreparedColumns |->
        CASE c = "crd" -> crd
          [] c = "report_date" -> rd
          [] c = "date_submitted" -> tb[1]
          [] c = "filing_id" -> tb[2]
          [] OTHER -> tb[3]]

\* prepared rows of the model: firm 100 with every tie-break in period
\* 2023-04-01 and two filings in period 2023-01-01, firm 200 with one filing
\* per period
PreparedRowPool ==
    {PreparedRow(100, 20230401, tb) : tb \in TieBreaks}
    \cup {PreparedRow(100, 20230101, tb) :
            tb \in {<<20230410, F9, NameX>>, <<20230115, F9, NameX>>}}
    \cup {PreparedRow(200, rd, <<20230115, F9, NameX>>) : rd \in {20230101, 20230401}}

PreparedTables ==
    {[columns |-> PreparedColumns, rows |-> rs] :
        rs \in SeqsUpTo(PreparedRowPool, MaxPreparedRows)}

InitReduce ==
    /\ MergeIdle
    /\ RunIdle
    /\ PrepIdle
    /\ NoticeIdle
    /\ df \in PreparedTables
    /\ per_period = NoResult
    /\ per_crd = NoResult

LatestPerPeriod ==
    /\ df # NoTable
    /\ per_period = NoResult
    /\ per_period' = [status |-> "returned", table |-> _latest_per_period(df)]
    /\ UNCHANGED <<df, per_crd>>
    /\ UNCHANGED <<mergeVars, prepVars, noticeVars, runVars>>

LatestPerCrd ==
    /\ df # NoTable
    /\ per_crd = NoResult
    /\ per_crd' = [status |-> "returned", table |-> _latest_per_crd(df)]
    /\ UNCHANGED <<df, per_period>>
    /\ UNCHANGED <<mergeVars, prepVars, noticeVars, runVars>>

NextReduce == LatestPerPeriod \/ LatestPerCrd

SpecReduce == InitReduce /\ [][NextReduce]_vars

-----------------------------------------------------------------------------
(* Claims about the reducers                                               *)

\* row s ranks strictly before row r inside one period: a later submission
\* date (any date before a missing one), or the same one and a greater
\* filing id by string comparison (any id before a missing one)
LaterSubmitted(s, r) ==
    s["date_submitted"] # NaT
    /\ (r["date_submitted"] = NaT \/ s["date_submitted"] > r["date_submitted"])

GreaterFilingId(s, r) ==
    s["filing_id"] # NA
    /\ (r["filing_id"] = NA \/ TextLess(r["filing_id"], s["filing_id"]))

RanksBefore(s, r) ==
    \/ LaterSubmitted(s, r)
    \/ s["date_submitted"] = r["date_submitted"] /\ GreaterFilingId(s, r)

Rows(tbl) == SeqToSet(tbl.rows)

\* C4: _latest_per_period returns exactly one row per distinct
\* (crd, report_date) of its input; the row kept is a row of the group that
\* no other row of the group ranks before (latest date_submitted, nulls
\* last, then greatest filing_id as a string, nulls last); the output is
\* sorted ascending by (crd, report_date).
C4_LatestPerPeriod ==
    per_period # NoResult =>
        LET out == per_period.table.rows
        IN  /\ {OnColumns(r, PeriodKey) : r \in SeqToSet(out)} = {OnColumns(r, PeriodKey) : r \in Rows(df)}
            /\ \A i, j \in 1..Len(out) : OnColumns(out[i], PeriodKey) = OnColumns(out[j], PeriodKey) => i = j
            /\ \A i \in 1..Len(out) :
                /\ out[i] \in Rows(df)
                /\ \A s \in Rows(df) :
                    OnColumns(s, PeriodKey) = OnColumns(out[i], PeriodKey) => ~RanksBefore(s, out[i])
            /\ \A i \in 1..(Len(out) - 1) :
                \/ out[i]["crd"] < out[i + 1]["crd"]
                \/ /\ out[i]["crd"] = out[i + 1]["crd"]
                   /\ out[i]["report_date"] < out[i + 1]["report_date"]

\* one period of firm 100 holds a filing without submission date and two
\* filings submitted the same day with ids "10" and "9": the "9" filing is kept
C4_Witness ==
    /\ per_period # NoResult
    /\ Len(df.rows) = 3
    /\ Len(per_period.table.rows) = 1
    /\ \E r \in Rows(df) : r["date_submitted"] = NaT
    /\ \E r \in Rows(df) : r["date_submitted"] = 20230410 /\ r["filing_id"] = F10
    /\ per_period.table.rows[1]["date_submitted"] = 20230410
    /\ per_period.table.rows[1]["filing_id"] = F9

\* C5: _latest_per_crd returns exactly one row per distinct crd of its input;
\* that row is of the firm's most recent report_date and no row of that
\* period ranks before it; the output is in ascending crd order; firm 100
\* with periods 20230101 and 20230401 gets its 20230401 row.
C5_LatestPerCrd ==
    per_crd # NoResult =>
        LET out == per_crd.table.rows
        IN  /\ {r["crd"] : r \in SeqToSet(out)} = {r["crd"] : r \in Rows(df)}
            /\ \A i \in 1..Len(out) :
                /\ out[i] \in Rows(df)
                /\ \A s \in Rows(df) :
                    s["crd"] = out[i]["crd"] =>
                        /\ s["report_date"] <= out[i]["report_date"]
                        /\ s["report_date"] = out[i]["report_date"]
                            => ~RanksBefore(s, out[i])
            /\ \A i \in 1..(Len(out) - 1) : out[i]["crd"] < out[i + 1]["crd"]
            /\ ({r["report_date"] : r \in {x \in Rows(df) : x["crd"] = 100}}
                    = {20230101, 20230401})
                => \E i \in 1..Len(out) :
                    out[i]["crd"] = 100 /\ out[i]["report_date"] = 20230401

\* firm 100 filed for 20230101 and 20230401, firm 200 filed too: two rows
\* come back, firm 100's for 20230401
C5_Witness ==
    /\ per_crd # NoResult
    /\ \E r \in Rows(df) : r["crd"] = 100 /\ r["report_date"] = 20230101
    /\ \E r \in Rows(df) : r["crd"] = 100 /\ r["report_date"] = 20230401
    /\ \E r \in Rows(df) : r["crd"] = 200
    /\ Len(per_crd.table.rows) = 2
    /\ per_crd.table.rows[1]["crd"] = 100
    /\ per_crd.table.rows[1]["report_date"] = 20230401

\* the rows of a table in another order
RowOrders(n) == {p \in [1..n -> 1..n] : \A i, j \in 1..n : p[i] = p[j] => i = j}

Permuted(tbl, p) == [tbl EXCEPT !.rows = [i \in 1..Len(tbl.rows) |-> tbl.rows[p[i]]]]

\* C6: for every permutation of the prepared rows, _latest_per_period and
\* _latest_per_crd return the same rows, all column values equal, as for the
\* original order.
C6_OrderOfArrivalIrrelevant ==
    (per_period # NoResult /\ per_crd # NoResult) =>
        \A p \in RowOrders(Len(df.rows)) :
            /\ _latest_per_period(Permuted(df, p)) = per_period.table
            /\ _latest_per_crd(Permuted(df, p)) = per_crd.table

-----------------------------------------------------------------------------
(* build_gold.py: _boolean_from_series, notice filings wide and long       *)

TRUE_VALUES == {<<"Y">>, <<"Y", "E", "S">>, <<"T", "R", "U", "E">>, <<"T">>, <<"1">>}

\* series.fillna("")
fillna(cell) == IF IsNA(cell) THEN << >> ELSE cell

\* one cell of _boolean_from_series: False when the column is absent, else
\* series.fillna("").astype(str).str.strip().str.upper().isin(TRUE_VALUES)
_boolean_from_series_NoStrip(cell) ==
    cell # None /\ Upper(fillna(cell)) \in TRUE_VALUES

_boolean_from_series(cell) ==
    cell # None /\ Upper(Strip(fillna(cell))) \in TRUE_VALUES

\* the names of the model's columns, spelled out, so that startswith and
\* split work on their characters
ColumnNames ==
    {"crd", "report_date", "date_submitted", "filing_id", "1A", "2_CA",
     "2_NY", "CA", "NY", "TX", "1E1", "REPORT_DATE", "DATESUBMITTED",
     "FILING_ID", "1B1", "3A", "7B", "11", "5A", "5F2A", "5F2B",
     "5F3", "__source_file"}

Spell ==
    [n \in ColumnNames |->
        CASE n = "crd" -> <<"c", "r", "d">>
          [] n = "report_date" ->
                <<"r", "e", "p", "o", "r", "t", "_", "d", "a", "t", "e">>
          [] n = "date_submitted" ->
                <<"d", "a", "t", "e", "_", "s", "u", "b", "m", "i", "t", "t", "e", "d">>
          [] n = "filing_id" ->
                <<"f", "i", "l", "i", "n", "g", "_", "i", "d">>
          [] n = "1A" -> <<"1", "A">>
          [] n = "2_CA" -> <<"2", "_", "C", "A">>
          [] n = "2_NY" -> <<"2", "_", "N", "Y">>
          [] n = "CA" -> <<"C", "A">>
          [] n = "NY" -> <<"N", "Y">>
          [] n = "TX" -> <<"T", "X">>
          [] n = "1E1" -> <<"1", "E", "1">>
          [] n = "REPORT_DATE" ->
                <<"R", "E", "P", "O", "R", "T", "_", "D", "A", "T", "E">>
          [] n = "DATESUBMITTED" ->
                <<"D", "A", "T", "E", "S", "U", "B", "M", "I", "T", "T", "E", "D">>
          [] n = "FILING_ID" ->
                <<"F", "I", "L", "I", "N", "G", "_", "I", "D">>
          [] n = "1B1" -> <<"1", "B", "1">>
          [] n = "3A" -> <<"3", "A">>
          [] n = "7B" -> <<"7", "B">>
          [] n = "11" -> <<"1", "1">>
          [] n = "5A" -> <<"5", "A">>
          [] n = "5F2A" -> <<"5", "F", "2", "A">>
          [] n = "5F2B" -> <<"5", "F", "2", "B">>
          [] n = "5F3" -> <<"5", "F", "3">>
          [] n = "__source_file" ->
                <<"_", "_", "s", "o", "u", "r", "c", "e", "_", "f", "i", "l", "e">>]

\* the column whose name is spelled by the text
Unspell(text) == CHOOSE n \in DOMAIN Spell : Spell[n] = text

\* str.startswith
StartsWith(text, prefix) ==
    Len(text) >= Len(prefix) /\ SubSeq(text, 1, Len(prefix)) = prefix

\* text.split(sep, 1)[1]: what follows the first sep
AfterFirst(text, sep) ==
    LET at == CHOOSE i \in 1..Len(text) :
                text[i] = sep /\ \A j \in 1..(i - 1) : text[j] # sep
    IN SubSeq(text, at + 1, Len(text))

\* sorted(names): the names in ascending string order
Sorted(names) ==
    LET rank(n) == Cardinality({m \in names : TextLess(Spell[m], Spell[n])}) + 1
    IN [k \in 1..Cardinality(names) |-> CHOOSE n \in names : rank(n) = k]

\* sep.join(texts)
RECURSIVE Join(_, _)
Join(texts, sep) ==
    IF texts = << >> THEN << >>
    ELSE IF Len(texts) = 1 THEN texts[1]
    ELSE texts[1] \o <<sep>> \o Join(Tail(texts), sep)

\* _prepare_notice_components: the per-period rows, the state codes in the
\* order of the sorted state-flag columns, and one row of booleans per
\* per-period row
StateColumns(columns) == Sorted({c \in columns : StartsWith(Spell[c], <<"2", "_">>)})

StateCodes(state_cols) ==
    [k \in 1..Len(state_cols) |-> Unspell(AfterFirst(Spell[state_cols[k]], "_"))]

StateBool(rows, state_cols, state_codes) ==
    [i \in 1..Len(rows) |->
        [code \in SeqToSet(state_codes) |->
            _boolean_from_series(
                rows[i][state_cols[CHOOSE k \in 1..Len(state_codes) :
                                            state_codes[k] = code]])]]

ComponentsOf(pp, state_cols, state_codes) ==
    [per_period |-> pp,
     state_codes |-> state_codes,
     state_bool |-> StateBool(pp.rows, state_cols, state_codes)]

ComponentsFrom(pp, state_cols) == ComponentsOf(pp, state_cols, StateCodes(state_cols))

ComponentsOfPeriods(pp) == ComponentsFrom(pp, StateColumns(pp.columns))

_prepare_notice_components(tbl) == ComponentsOfPeriods(_latest_per_period(tbl))

WideBase == {"CRD Number", "Report Date", "Filing ID", "States Filed", "States Count"}

\* state_bool.empty: no row or no state column
StateBoolEmpty(comp) == comp.state_bool = << >> \/ comp.state_codes = << >>

\* one row of the wide table: the keys of a per-period row, its filed states
\* joined by "|" and counted, and its state booleans
WideRow(r, bools, codes) ==
    LET filed == SelectSeq(codes, LAMBDA code : bools[code])
        n == Len(filed)
    IN [c \in WideBase \cup SeqToSet(codes) |->
            CASE c = "CRD Number" -> r["crd"]
              [] c = "Report Date" -> r["report_date"]
              [] c = "Filing ID" -> r["filing_id"]
              [] c = "States Filed" ->
                    IF n = 0 THEN NA
                    ELSE Join([k \in 1..n |-> Spell[filed[k]]], "|")
              [] c = "States Count" -> n
              [] OTHER -> bools[c]]

\* the wide table of the notice components
WideOf(comp, codes) ==
    IF IsEmpty(comp.per_period) THEN
        [columns |-> WideBase, state_codes |-> << >>, rows |-> << >>]
    ELSE
        [columns |-> WideBase \cup SeqToSet(codes),
         state_codes |-> codes,
         rows |-> sort_values(
                    [i \in 1..Len(comp.per_period.rows) |->
                        WideRow(comp.per_period.rows[i], comp.state_bool[i], codes)],
                    <<"CRD Number", "Report Date">>, <<TRUE, TRUE>>)]

\* the state codes of the wide table: none when state_bool is empty
WideCodes(comp) == IF StateBoolEmpty(comp) THEN << >> ELSE comp.state_codes

WideOfComponents(comp) == WideOf(comp, WideCodes(comp))

build_notice_filings_wide(tbl) == WideOfComponents(_prepare_notice_components(tbl))

LongColumns == {"CRD Number", "Report Date", "State"}

\* melted[melted["Filed"]]
Filed_All(m) == TRUE

Filed(m) == m.Filed

\* long_base.melt(...): one row per state column and per-period row, the
\* state columns in turn
Melt(comp) ==
    LET pp == comp.per_period
        nr == Len(pp.rows)
        one(n) ==
            LET k == ((n - 1) \div nr) + 1
                i == ((n - 1) % nr) + 1
            IN [crd |-> pp.rows[i]["crd"],
                report_date |-> pp.rows[i]["report_date"],
                State |-> Spell[comp.state_codes[k]],
                Filed |-> comp.state_bool[i][comp.state_codes[k]]]
    IN [n \in 1..(Len(comp.state_codes) * nr) |-> one(n)]

\* the melted rows under the long table's column names
Renamed(melted) ==
    [n \in 1..Len(melted) |->
        [c \in LongColumns |->
            CASE c = "CRD Number" -> melted[n].crd
              [] c = "Report Date" -> melted[n].report_date
              [] c = "State" -> melted[n].State]]

\* the long table of the notice components
LongOfComponents(comp) ==
    IF IsEmpty(comp.per_period) \/ StateBoolEmpty(comp) THEN
        [columns |-> LongColumns, rows |-> << >>]
    ELSE
        [columns |-> LongColumns,
         rows |-> sort_values(Renamed(SelectSeq(Melt(comp), Filed)),
                              <<"CRD Number", "Report Date", "State">>,
                              <<TRUE, TRUE, TRUE>>)]

build_notice_filings_long(tbl) == LongOfComponents(_prepare_notice_components(tbl))

MaxNoticeRows == 2

FlagY == <<"Y">>
FlagN == <<"N">>
Flag_yes == <<"y", "e", "s">>
Flag_TRUE_padded == <<" ", " ", "T", "R", "U", "E", " ">>
Flag_t == <<"t">>
Flag1 == <<"1">>
Flag0 == <<"0">>
FlagBlank == << >>
Flag_maybe == <<"m", "a", "y", "b", "e">>

\* flag cells: every truthy token in some spelling, and cells that are not
CAFlags ==
    {FlagY, Flag_yes, Flag_TRUE_padded, Flag_t, Flag1,
     FlagN, Flag0, FlagBlank, NA, Flag_maybe}

\* the flags (2_CA, 2_NY) of one row: every CA cell beside NY = N, and the
\* plain Y / N cells in every combination
FlagPairs ==
    {<<ca, FlagN>> : ca \in CAFlags}
    \cup {<<ca, ny>> : ca \in {FlagY, FlagN}, ny \in {FlagY, FlagN}}

PlainFlagPairs == {<<ca, ny>> : ca \in {FlagY, FlagN}, ny \in {FlagY, FlagN}}

\* firm, period and submission date of the model's notice rows: two filings
\* of firm 100 for 2023-04-01 and one filing of firm 200 for 2023-01-01
FirstNoticeKey == <<100, 20230401, 20230410>>

NoticeKeys == {FirstNoticeKey, <<100, 20230401, 20230115>>,
               <<200, 20230101, 20230115>>}

NoticeRow(cols, k, ca, ny) ==
    [c \in cols |->
        CASE c = "crd" -> k[1]
          [] c = "report_date" -> k[2]
          [] c = "date_submitted" -> k[3]
          [] c = "filing_id" -> F9
          [] c = "2_CA" -> ca
          [] c = "2_NY" -> ny]

FlaggedColumns == HelperColumns \cup {"2_CA", "2_NY"}

\* prepared tables with the two state-flag columns, and without any
NoticeTables ==
    {[columns |-> FlaggedColumns, rows |-> rs] :
        rs \in SeqsUpTo(
            {NoticeRow(FlaggedColumns, FirstNoticeKey, f[1], f[2]) : f \in FlagPairs}
            \cup {NoticeRow(FlaggedColumns, k, f[1], f[2]) :
                    k \in NoticeKeys, f \in PlainFlagPairs},
            MaxNoticeRows)}
    \cup
    {[columns |-> HelperColumns, rows |-> rs] :
        rs \in SeqsUpTo({NoticeRow(HelperColumns, k, NA, NA) : k \in NoticeKeys},
                        MaxNoticeRows)}

InitNotice ==
    /\ MergeIdle
    /\ RunIdle
    /\ PrepIdle
    /\ df \in NoticeTables
    /\ per_period = NoResult
    /\ per_crd = NoResult
    /\ notice_wide = NoResult
    /\ notice_long = NoResult

BuildNoticeWide ==
    /\ df # NoTable
    /\ notice_wide = NoResult
    /\ notice_wide' = [status |-> "returned", table |-> build_notice_filings_wide(df)]
    /\ UNCHANGED <<notice_long, mergeVars, prepVars, reduceVars, runVars>>

BuildNoticeLong ==
    /\ df # NoTable
    /\ notice_long = NoResult
    /\ notice_long' = [status |-> "returned", table |-> build_notice_filings_long(df)]
    /\ UNCHANGED <<notice_wide, mergeVars, prepVars, reduceVars, runVars>>

NextNotice == BuildNoticeWide \/ BuildNoticeLong

SpecNotice == InitNotice /\ [][NextNotice]_vars

-----------------------------------------------------------------------------
(* Claims about the notice filings tables                                  *)

\* the rule of the claim: the trimmed, upper-cased flag is one of the tokens
TruthyFlag(cell) ==
    cell # NA /\ Upper(Strip(cell)) \in {<<"Y">>, <<"Y", "E", "S">>,
                                          <<"T", "R", "U", "E">>, <<"T">>, <<"1">>}

\* the state-flag columns of the model and the state code each one names
StateCodeOf == [c \in {"2_CA", "2_NY"} |-> IF c = "2_CA" THEN "CA" ELSE "NY"]

FlagColumnsOf(tbl) == tbl.columns \cap DOMAIN StateCodeOf

\* the pipe-joined list of the true state codes of a wide row
ExpectedFiled(ca, ny) ==
    IF ca /\ ny THEN <<"C", "A", "|", "N", "Y">>
    ELSE IF ca THEN <<"C", "A">>
    ELSE IF ny THEN <<"N", "Y">>
    ELSE NA

\* C9: build_notice_filings_wide yields one row per (firm, period) of the
\* latest-per-period reduction; each state boolean is true iff the trimmed,
\* upper-cased flag is one of Y, YES, TRUE, T, 1; States Count is the number
\* of true booleans and States Filed the pipe-joined true codes or null;
\* without state-flag columns every row has count 0, filed null, and the
\* table has no boolean column.
C9_NoticeWide ==
    notice_wide # NoResult =>
        LET pp == _latest_per_period(df).rows
            wide == notice_wide.table
        IN  /\ Len(wide.rows) = Len(pp)
            /\ FlagColumnsOf(df) = {} => wide.columns = WideBase
            /\ pp # << >> =>
                wide.columns = WideBase \cup {StateCodeOf[c] : c \in FlagColumnsOf(df)}
            /\ \A i \in 1..Len(pp) :
                LET w == wide.rows[i]
                    on == {c \in FlagColumnsOf(df) : w[StateCodeOf[c]]}
                IN  /\ w["CRD Number"] = pp[i]["crd"]
                    /\ w["Report Date"] = pp[i]["report_date"]
                    /\ \A c \in FlagColumnsOf(df) :
                        /\ w[StateCodeOf[c]] = TruthyFlag(pp[i][c])
                        /\ pp[i][c] \in {FlagY, Flag_yes, Flag_TRUE_padded, Flag1}
                            => w[StateCodeOf[c]]
                        /\ pp[i][c] \in {FlagN, Flag0, FlagBlank, NA, Flag_maybe}
                            => ~w[StateCodeOf[c]]
                    /\ w["States Count"] = Cardinality(on)
                    /\ w["States Filed"] = ExpectedFiled("2_CA" \in on, "2_NY" \in on)

\* the scenario of the spec: firm 100, period 2023-04-01, flags CA=Y, NY=N
C9_Witness ==
    /\ notice_wide # NoResult
    /\ {"2_CA", "2_NY"} \subseteq df.columns
    /\ \E i \in 1..Len(df.rows) :
        /\ df.rows[i]["crd"] = 100 /\ df.rows[i]["report_date"] = 20230401
        /\ df.rows[i]["2_CA"] = FlagY /\ df.rows[i]["2_NY"] = FlagN
    /\ \E i \in 1..Len(notice_wide.table.rows) :
        LET w == notice_wide.table.rows[i]
        IN  /\ w["CRD Number"] = 100 /\ w["Report Date"] = 20230401
            /\ w["CA"] /\ ~w["NY"]
            /\ w["States Filed"] = <<"C", "A">>
            /\ w["States Count"] = 1

\* the (firm, period, state) triples of the long table and of the wide table
LongTriples ==
    {<<r["CRD Number"], r["Report Date"], r["State"]>> :
        r \in SeqToSet(notice_long.table.rows)}

WideTriples ==
    LET wide == notice_wide.table
    IN {<<wide.rows[t[1]]["CRD Number"], wide.rows[t[1]]["Report Date"], Spell[t[2]]>> :
            t \in {u \in (1..Len(wide.rows)) \X (wide.columns \ WideBase) :
                        wide.rows[u[1]][u[2]]}}

\* C10: the long table holds a row (firm, period, state) exactly when the
\* wide row of (firm, period) has that state true, each triple once; the
\* number of long rows of a (firm, period) is its States Count; the long
\* table is empty without state columns and is sorted by (firm, period, state).
C10_LongAgreesWithWide ==
    (notice_wide # NoResult /\ notice_long # NoResult) =>
        LET long == notice_long.table.rows
            wide == notice_wide.table.rows
        IN  /\ LongTriples = WideTriples
            /\ Len(long) = Cardinality(LongTriples)
            /\ \A i \in 1..Len(wide) :
                wide[i]["States Count"] =
                    Cardinality({n \in 1..Len(long) :
                        /\ long[n]["CRD Number"] = wide[i]["CRD Number"]
                        /\ long[n]["Report Date"] = wide[i]["Report Date"]})
            /\ FlagColumnsOf(df) = {} => long = << >>
            /\ \A n \in 1..(Len(long) - 1) :
                \/ long[n]["CRD Number"] < long[n + 1]["CRD Number"]
                \/ /\ long[n]["CRD Number"] = long[n + 1]["CRD Number"]
                   /\ long[n]["Report Date"] < long[n + 1]["Report Date"]
                \/ /\ long[n]["CRD Number"] = long[n + 1]["CRD Number"]
                   /\ long[n]["Report Date"] = long[n + 1]["Report Date"]
                   /\ TextLess(long[n]["State"], long[n + 1]["State"])

\* two firms: one filed in CA and NY, the other in none; the long table
\* holds the two rows of the first
C10_Witness ==
    /\ notice_wide # NoResult /\ notice_long # NoResult
    /\ Len(notice_wide.table.rows) = 2
    /\ notice_wide.table.rows[1]["States Count"] = 2
    /\ notice_wide.table.rows[2]["States Count"] = 0
    /\ Len(notice_long.table.rows) = 2
    /\ notice_long.table.rows[1]["State"] = <<"C", "A">>
    /\ notice_long.table.rows[2]["State"] = <<"N", "Y">>

-----------------------------------------------------------------------------
(* etl_utils.py: load_silver, over the files of the SILVER directory       *)

\* the file of a partition in the parquet layout and in the CSV layout
PARQUET == "part-0.parquet"

PART_CSV == "part.csv"

\* the fields pd.read_csv reads as a missing value, among the model's texts
NaTokens == {<< >>, <<"N", "A">>, <<"N", "a", "N">>}

\* DataFrame.to_csv of one cell: a missing value is written as an empty field
to_csv_cell(cell) == IF IsNA(cell) THEN << >> ELSE cell

\* DataFrame.to_csv(path, index=False)
to_csv(tbl) ==
    [tbl EXCEPT !.rows = [i \in 1..Len(tbl.rows) |->
                            [c \in tbl.columns |-> to_csv_cell(tbl.rows[i][c])]]]

\* pd.read_csv(..., dtype=str) of one field
read_csv_cell(field) == IF field \in NaTokens THEN NA ELSE field

\* pd.read_csv(f, dtype=str, low_memory=False)
read_csv(tbl) ==
    [tbl EXCEPT !.rows = [i \in 1..Len(tbl.rows) |->
                            [c \in tbl.columns |-> read_csv_cell(tbl.rows[i][c])]]]

\* pd.read_parquet(f) if use_parquet else pd.read_csv(f, ...)
ReadFile(f) == IF f.name = PARQUET THEN f.table ELSE read_csv(f.table)

\* x["__source_file"] = os.path.basename(f)
WithSourceFile(tbl, name) ==
    [columns |-> tbl.columns \cup {"__source_file"},
     rows |-> [i \in 1..Len(tbl.rows) |->
                [c \in tbl.columns \cup {"__source_file"} |->
                    IF c = "__source_file" THEN name ELSE tbl.rows[i][c]]]]

\* the rows of tbl over the columns cols, missing where tbl has no such column
Reindex(tbl, cols) ==
    [i \in 1..Len(tbl.rows) |-> [c \in cols |-> Cell(tbl, tbl.rows[i], c)]]

ConcatTwo(a, b) ==
    [columns |-> a.columns \cup b.columns,
     rows |-> Reindex(a, a.columns \cup b.columns)
              \o Reindex(b, a.columns \cup b.columns)]

\* pd.concat(frames, ignore_index=True)
RECURSIVE concat(_)
concat(frames) ==
    IF frames = << >> THEN NoTable
    ELSE IF Len(frames) = 1 THEN frames[1]
    ELSE ConcatTwo(frames[1], concat(Tail(frames)))

ParquetFiles(dir) == {f \in dir.files : f.name = PARQUET}

CsvFiles(dir) == {f \in dir.files : f.name = PART_CSV}

\* the files load_silver reads: the parquet files, or the part.csv files when
\* there is no parquet file
Globbed(dir) == IF ParquetFiles(dir) # {} THEN ParquetFiles(dir) ELSE CsvFiles(dir)

\* the orders in which glob.glob may return a set of files (it promises none)
Orders(files) ==
    {fs \in [1..Cardinality(files) -> files] :
        \A i, j \in 1..Cardinality(files) : fs[i] = fs[j] => i = j}

GlobOrders(dir) == Orders(Globbed(dir))

\* load_silver, with `files` the glob result
load_silver(dir, files) ==
    IF ~dir.exists THEN
        [status |-> "raised", error |-> "SILVER directory not found"]
    ELSE IF files = << >> THEN
        [status |-> "raised", error |-> "No parquet or CSV parts found"]
    ELSE
        [status |-> "returned",
         table |-> concat([k \in 1..Len(files) |->
                            WithSourceFile(ReadFile(files[k]), files[k].name)])]

-----------------------------------------------------------------------------
(* build_gold.py: the text and number helpers, build_firm_master,          *)
(* build_firm_timeseries, build_firms_latest, build_notice_state_counts.   *)
(* The dash of the gold column names is written "-" here.                  *)

\* DataFrame.get(column) for one row: None when the table has no such column
Get(tbl, r, c) == IF c \in tbl.columns THEN r[c] ELSE None

\* series.astype("string").str.strip(), missing values as None
_clean_text(cell) == IF cell = None \/ IsNA(cell) THEN NA ELSE Strip(cell)

\* round() of a float: to the nearest integer, a half to the even one
RoundHalfEven(x) ==
    IF x.frac = << >> THEN x.whole
    ELSE IF DigitVal(x.frac[1]) > 5 \/ (DigitVal(x.frac[1]) = 5 /\ Len(x.frac) > 1)
    THEN x.whole + 1
    ELSE IF DigitVal(x.frac[1]) = 5 /\ x.whole % 2 = 1 THEN x.whole + 1
    ELSE x.whole

\* numeric.round().astype("Int64")
RoundedInt64(x) == IF IsNaN(x) THEN NA ELSE RoundHalfEven(x)

_numeric_int(cell) == IF cell = None THEN NA ELSE RoundedInt64(to_numeric(cell))

\* pd.to_numeric(series, errors="coerce") of a column the table has
_numeric_float(cell) == to_numeric(cell)

\* the columns read by _numeric_float that the table lacks: for such a
\* column the helper builds pd.Series([pd.NA] * length, dtype="float64"),
\* and float64 does not take pd.NA
FloatColumnsMissing(tbl, cols) == {c \in cols : c \notin tbl.columns}

MasterFloats == {"5F3", "5F2B"}

MasterColumns ==
    {"CRD Number", "Firm Legal Name", "Primary Business Name", "Ownership Type",
     "Custody", "Disciplinary Info Provided", "Employees - Total",
     "Regulatory AUM - Total (USD)", "Regulatory AUM - Non-Discretionary (USD)"}

MasterRow(tbl, r) ==
    [c \in MasterColumns |->
        CASE c = "CRD Number" -> r["crd"]
          [] c = "Firm Legal Name" -> _clean_text(Get(tbl, r, "1A"))
          [] c = "Primary Business Name" -> _clean_text(Get(tbl, r, "1B1"))
          [] c = "Ownership Type" -> _clean_text(Get(tbl, r, "3A"))
          [] c = "Custody" -> _boolean_from_series(Get(tbl, r, "7B"))
          [] c = "Disciplinary Info Provided" -> _boolean_from_series(Get(tbl, r, "11"))
          [] c = "Employees - Total" -> _numeric_int(Get(tbl, r, "5A"))
          [] c = "Regulatory AUM - Total (USD)" -> _numeric_float(r["5F3"])
          [] c = "Regulatory AUM - Non-Discretionary (USD)" -> _numeric_float(r["5F2B"])]

\* build_firm_master after latest = _latest_per_crd(df)
MasterOf(latest) ==
    IF IsEmpty(latest) THEN
        [status |-> "returned", table |-> [columns |-> MasterColumns, rows |-> << >>]]
    ELSE IF FloatColumnsMissing(latest, MasterFloats) # {} THEN
        [status |-> "raised", error |-> "TypeError float64 NA"]
    ELSE
        [status |-> "returned",
         table |-> [columns |-> MasterColumns,
                    rows |-> [i \in 1..Len(latest.rows) |->
                                MasterRow(latest, latest.rows[i])]]]

build_firm_master(tbl) == MasterOf(_latest_per_crd(tbl))

TimeseriesFloats == {"5F2A", "5F2B", "5F3"}

TimeseriesColumns ==
    {"CRD Number", "Report Date", "Filing ID",
     "Regulatory AUM - Discretionary (USD)",
     "Regulatory AUM - Non-Discretionary (USD)",
     "Regulatory AUM - Total (USD)", "Employees - Total"}

TimeseriesRow(tbl, r) ==
    [c \in TimeseriesColumns |->
        CASE c = "CRD Number" -> r["crd"]
          [] c = "Report Date" -> r["report_date"]
          [] c = "Filing ID" -> r["filing_id"]
          [] c = "Regulatory AUM - Discretionary (USD)" -> _numeric_float(r["5F2A"])
          [] c = "Regulatory AUM - Non-Discretionary (USD)" -> _numeric_float(r["5F2B"])
          [] c = "Regulatory AUM - Total (USD)" -> _numeric_float(r["5F3"])
          [] c = "Employees - Total" -> _numeric_int(Get(tbl, r, "5A"))]

\* build_firm_timeseries after per_period = _latest_per_period(df)
TimeseriesOf(pp) ==
    IF IsEmpty(pp) THEN
        [status |-> "returned",
         table |-> [columns |-> TimeseriesColumns, rows |-> << >>]]
    ELSE IF FloatColumnsMissing(pp, TimeseriesFloats) # {} THEN
        [status |-> "raised", error |-> "TypeError float64 NA"]
    ELSE
        [status |-> "returned",
         table |-> [columns |-> TimeseriesColumns,
                    rows |-> sort_values(
                                [i \in 1..Len(pp.rows) |-> TimeseriesRow(pp, pp.rows[i])],
                                <<"CRD Number", "Report Date">>, <<TRUE, TRUE>>)]]

build_firm_timeseries(tbl) == TimeseriesOf(_latest_per_period(tbl))

StaticColumns ==
    {"CRD Number", "Firm Legal Name", "Primary Business Name", "Ownership Type",
     "Custody", "Disciplinary Info Provided"}

FirmsLatestColumns == StaticColumns \cup TimeseriesColumns

\* each firm's earliest row instead of its latest
LatestMetrics_Earliest(rows) ==
    drop_duplicates(
        sort_values(rows, <<"CRD Number", "Report Date">>, <<TRUE, TRUE>>),
        {"CRD Number"})

\* firm_timeseries.sort_values(["CRD Number", "Report Date"],
\*     ascending=[True, False]).drop_duplicates(subset=["CRD Number"], keep="first")
LatestMetrics(rows) ==
    drop_duplicates(
        sort_values(rows, <<"CRD Number", "Report Date">>, <<TRUE, FALSE>>),
        {"CRD Number"})

\* static.merge(latest_metrics, on="CRD Number", how="inner"), the merged
\* rows named by the pairs of positions
MergedRows(static, metrics, pairs) ==
    [k \in 1..Len(pairs) |->
        [c \in FirmsLatestColumns |->
            IF c \in StaticColumns THEN static[pairs[k].l][c]
            ELSE metrics[pairs[k].r][c]]]

MergeOnCrd(static, metrics) ==
    MergedRows(static, metrics,
               InnerMerge([rows |-> static], [rows |-> metrics], "CRD Number"))

build_firms_latest(fm, ft) ==
    IF IsEmpty(fm) \/ IsEmpty(ft) THEN
        [columns |-> FirmsLatestColumns, rows |-> << >>]
    ELSE
        [columns |-> FirmsLatestColumns,
         rows |-> sort_values(MergeOnCrd(fm.rows, LatestMetrics(ft.rows)),
                              <<"CRD Number">>, <<TRUE>>)]

StateCountColumns == {"State", "Firm Count"}

\* every row of the wide table, the earlier periods of a firm included
Latest_AllPeriods(rows) == rows

\* notice_wide.sort_values(["CRD Number", "Report Date"],
\*     ascending=[True, False]).drop_duplicates(subset=["CRD Number"], keep="first")
Latest(rows) ==
    drop_duplicates(
        sort_values(rows, <<"CRD Number", "Report Date">>, <<TRUE, FALSE>>),
        {"CRD Number"})

\* latest[state_cols].sum(axis=0): per state column, the rows that hold True
StateCounts(latest, codes) ==
    [k \in 1..Len(codes) |->
        [c \in StateCountColumns |->
            IF c = "State" THEN Spell[codes[k]]
            ELSE Cardinality({i \in 1..Len(latest) : latest[i][codes[k]]})]]

\* the state columns are the columns of dtype bool of the wide table
build_notice_state_counts(wide) ==
    IF IsEmpty(wide) \/ wide.state_codes = << >> THEN
        [columns |-> StateCountColumns, rows |-> << >>]
    ELSE
        [columns |-> StateCountColumns,
         rows |-> sort_values(StateCounts(Latest(wide.rows), wide.state_codes),
                              <<"Firm Count", "State">>, <<FALSE, TRUE>>)]

\* save_parquet: the directory after df.to_parquet(path) wrote the file, the
\* file of that name replaced
save_parquet(dir, name, tbl) ==
    {f \in dir : f.name # name} \cup {[name |-> name, table |-> tbl]}

-----------------------------------------------------------------------------
(* build_gold.py: main                                                     *)

\* the steps of main in their order; pc names the step about to run
Steps ==
    <<"load_silver", "prepare_silver", "firm_master", "firm_timeseries",
      "notice_filings_wide", "notice_filings_long", "firms_latest",
      "notice_state_counts">>

\* an exception leaves main: the run is over, with a failed status
AfterSave_Swallowed(writable, next) == next

\* where main is after save_parquet: at the next step, or out of the run
\* when df.to_parquet raised
AfterSave(writable, next) == IF writable THEN next ELSE "failed"

\* a step that builds one table and saves it: `outcome` is what the builder
\* returned or raised, `writable` whether df.to_parquet succeeds
BuildAndSave(name, outcome, writable, next) ==
    /\ traceback' = IF outcome.status = "raised" THEN <<name, outcome.error>>
                    ELSE IF ~writable THEN <<name, "to_parquet">>
                    ELSE traceback
    /\ gold_dir' = IF outcome.status = "returned" /\ writable
                   THEN save_parquet(gold_dir, name, outcome.table)
                   ELSE gold_dir
    /\ pc' = IF outcome.status = "raised" THEN "failed"
             ELSE AfterSave(writable, next)

\* silver = load_silver(SILVER_DIR), `outcome` what load_silver returned or
\* raised
Loaded(outcome) ==
    /\ silver' = IF outcome.status = "returned" THEN outcome.table ELSE silver
    /\ traceback' = IF outcome.status = "raised"
                    THEN <<"load_silver", outcome.error>> ELSE traceback

Load(outcome) ==
    /\ Loaded(outcome)
    /\ pc' = IF outcome.status = "raised" THEN "failed" ELSE "prepare_silver"

MainLoadSilver ==
    /\ pc = "load_silver"
    /\ \E files \in GlobOrders(silver_dir) : Load(load_silver(silver_dir, files))
    /\ UNCHANGED <<prepared, gold_dir, firm_master, firm_timeseries, firms_latest,
                   notice_state_counts>>
    /\ UNCHANGED <<mergeVars, reduceVars, noticeVars, silverVars>>

\* prepared = prepare_silver(silver)
MainPrepareSilver ==
    /\ pc = "prepare_silver"
    /\ prepared' = prepare_silver(silver)
    /\ traceback' = IF prepared'.status = "raised"
                    THEN <<"prepare_silver", prepared'.error>> ELSE traceback
    /\ pc' = IF prepared'.status = "raised" THEN "failed" ELSE "firm_master"
    /\ UNCHANGED <<silver, gold_dir, firm_master, firm_timeseries, firms_latest,
                   notice_state_counts>>
    /\ UNCHANGED <<mergeVars, reduceVars, noticeVars, silverVars>>

MainFirmMaster ==
    /\ pc = "firm_master"
    /\ firm_master' = build_firm_master(prepared.table)
    /\ \E writable \in BOOLEAN :
        BuildAndSave("firm_master", firm_master', writable, "firm_timeseries")
    /\ UNCHANGED <<firm_timeseries, firms_latest, notice_state_counts>>
    /\ UNCHANGED <<mergeVars, prepVars, reduceVars, noticeVars, silverVars>>

MainFirmTimeseries ==
    /\ pc = "firm_timeseries"
    /\ firm_timeseries' = build_firm_timeseries(prepared.table)
    /\ \E writable \in BOOLEAN :
        BuildAndSave("firm_timeseries", firm_timeseries', writable,
                     "notice_filings_wide")
    /\ UNCHANGED <<firm_master, firms_latest, notice_state_counts>>
    /\ UNCHANGED <<mergeVars, prepVars, reduceVars, noticeVars, silverVars>>

MainNoticeWide ==
    /\ pc = "notice_filings_wide"
    /\ notice_wide' = [status |-> "returned",
                       table |-> build_notice_filings_wide(prepared.table)]
    /\ \E writable \in BOOLEAN :
        BuildAndSave("notice_filings_wide", notice_wide', writable,
                     "notice_filings_long")
    /\ UNCHANGED <<notice_long, firm_master, firm_timeseries, firms_latest,
                   notice_state_counts>>
    /\ UNCHANGED <<mergeVars, prepVars, reduceVars, silverVars>>

MainNoticeLong ==
    /\ pc = "notice_filings_long"
    /\ notice_long' = [status |-> "returned",
                       table |-> build_notice_filings_long(prepared.table)]
    /\ \E writable \in BOOLEAN :
        BuildAndSave("notice_filings_long", notice_long', writable, "firms_latest")
    /\ UNCHANGED <<notice_wide, firm_master, firm_timeseries, firms_latest,
                   notice_state_counts>>
    /\ UNCHANGED <<mergeVars, prepVars, reduceVars, silverVars>>

MainFirmsLatest ==
    /\ pc = "firms_latest"
    /\ firms_latest' = [status |-> "returned",
                        table |-> build_firms_latest(firm_master.table,
                                                     firm_timeseries.table)]
    /\ \E writable \in BOOLEAN :
        BuildAndSave("firms_latest", firms_latest', writable, "notice_state_counts")
    /\ UNCHANGED <<firm_master, firm_timeseries, notice_state_counts>>
    /\ UNCHANGED <<mergeVars, prepVars, reduceVars, noticeVars, silverVars>>

MainNoticeStateCounts ==
    /\ pc = "notice_state_counts"
    /\ notice_state_counts' = [status |-> "returned",
                               table |-> build_notice_state_counts(notice_wide.table)]
    /\ \E writable \in BOOLEAN :
        BuildAndSave("notice_state_counts", notice_state_counts', writable, "done")
    /\ UNCHANGED <<firm_master, firm_timeseries, firms_latest>>
    /\ UNCHANGED <<mergeVars, prepVars, reduceVars, noticeVars, silverVars>>

MaxFiles == 2

GoldSilverColumns ==
    {"1E1", "REPORT_DATE", "DATESUBMITTED", "FILING_ID", "1A", "1B1", "3A", "7B",
     "11", "5A", "5F2A", "5F2B", "5F3", "2_CA", "2_NY"}

Name_padded == <<" ", "Y", " ">>

T10 == <<"1", "0">>
T2p5 == <<"2", ".", "5">>

\* a SILVER row over the columns cols: firm, period, legal name, employees
\* and the CA notice flag vary, the other cells are fixed
GoldSilverRow(cols, crd, rd, name, emp, ca) ==
    [c \in cols |->
        CASE c = "1E1" -> crd
          [] c = "REPORT_DATE" -> rd
          [] c = "DATESUBMITTED" -> D20230115
          [] c = "FILING_ID" -> F9
          [] c = "1A" -> name
          [] c = "1B1" -> NameX
          [] c = "3A" -> NA
          [] c = "7B" -> FlagY
          [] c = "11" -> FlagN
          [] c = "5A" -> emp
          [] c = "5F2A" -> T100
          [] c = "5F2B" -> T200
          [] c = "5F3" -> T1p5
          [] c = "2_CA" -> ca
          [] c = "2_NY" -> FlagN]

\* the file at partition `part` under `name` that holds the rows: in the CSV
\* layout as DataFrame.to_csv writes them
SilverFile(part, name, cols, rows) ==
    [partition |-> part, name |-> name,
     table |-> IF name = PART_CSV THEN to_csv([columns |-> cols, rows |-> rows])
               ELSE [columns |-> cols, rows |-> rows]]

\* files a SILVER directory of the model may hold: two parquet parts and one
\* CSV part with firms 100 and 200, a CSV part whose firm identifier is the
\* decimal 1.5, a parquet part without the column 5F2A, a CSV part without
\* the column 1E1, and a parquet part whose only row has no firm identifier
SilverFilePool ==
    {SilverFile(<<2023, 4>>, PARQUET, GoldSilverColumns,
        <<GoldSilverRow(GoldSilverColumns, T100, D20230401, NameX, T10, FlagY)>>),
     SilverFile(<<2023, 1>>, PARQUET, GoldSilverColumns,
        <<GoldSilverRow(GoldSilverColumns, T100, D20230101, Name_padded, T2p5, FlagN),
          GoldSilverRow(GoldSilverColumns, T200, D20230101, NameY, NA, FlagY)>>),
     SilverFile(<<2023, 1>>, PART_CSV, GoldSilverColumns,
        <<GoldSilverRow(GoldSilverColumns, T200, D20230101, NameY, << >>, FlagY)>>),
     SilverFile(<<2023, 4>>, PART_CSV, GoldSilverColumns,
        <<GoldSilverRow(GoldSilverColumns, T1p5, D20230401, NameX, T10, FlagY)>>),
     SilverFile(<<2022, 1>>, PARQUET, GoldSilverColumns \ {"5F2A"},
        <<GoldSilverRow(GoldSilverColumns \ {"5F2A"}, T200, D20230401, NameX, T10,
                        FlagN)>>),
     SilverFile(<<2022, 1>>, PART_CSV, GoldSilverColumns \ {"1E1"},
        <<GoldSilverRow(GoldSilverColumns \ {"1E1"}, T200, D20230401, NameX, T10,
                        FlagN)>>),
     SilverFile(<<2022, 4>>, PARQUET, GoldSilverColumns,
        <<GoldSilverRow(GoldSilverColumns, Tabc, D20230401, NameX, T10, FlagY)>>)}

\* no two files of a directory share a path
DistinctPaths(files) ==
    \A f, g \in files : (f.partition = g.partition /\ f.name = g.name) => f = g

\* the SILVER directories main may find: none, an empty one, or one holding
\* up to MaxFiles files
SilverDirs ==
    {NoDirectory}
    \cup {[exists |-> TRUE, files |-> fs] :
            fs \in {gs \in SUBSET SilverFilePool :
                        Cardinality(gs) <= MaxFiles /\ DistinctPaths(gs)}}

InitMain ==
    /\ MergeIdle
    /\ GoldIdle
    /\ silver_dir \in SilverDirs
    /\ ia_base_merged = NoTable
    /\ runs = 0
    /\ pc = "load_silver"
    /\ traceback = NoTraceback
    /\ gold_dir = {}
    /\ firm_master = NoResult
    /\ firm_timeseries = NoResult
    /\ firms_latest = NoResult
    /\ notice_state_counts = NoResult

NextMain ==
    \/ MainLoadSilver
    \/ MainPrepareSilver
    \/ MainFirmMaster
    \/ MainFirmTimeseries
    \/ MainNoticeWide
    \/ MainNoticeLong
    \/ MainFirmsLatest
    \/ MainNoticeStateCounts

SpecMain == InitMain /\ [][NextMain]_vars

-----------------------------------------------------------------------------
(* Claims about build_gold.main                                            *)

Tables ==
    {"firm_master", "firm_timeseries", "notice_filings_wide",
     "notice_filings_long", "firms_latest", "notice_state_counts"}

\* the place of a step in the run
Position(step) == CHOOSE i \in 1..Len(Steps) : Steps[i] = step

OutcomeOf(t) ==
    CASE t = "firm_master" -> firm_master
      [] t = "firm_timeseries" -> firm_timeseries
      [] t = "notice_filings_wide" -> notice_wide
      [] t = "notice_filings_long" -> notice_long
      [] t = "firms_latest" -> firms_latest
      [] t = "notice_state_counts" -> notice_state_counts

\* the builder of the table was called
Attempted(t) == OutcomeOf(t) # NoResult

\* the table's file is in GOLD_DIR
Written(t) == \E f \in gold_dir : f.name = t

\* the step raised, in its builder or in its save
FailedAt(step) == traceback # NoTraceback /\ traceback[1] = step

\* the tables a table is built from
DependsOn(t) ==
    CASE t = "firms_latest" -> {"firm_master", "firm_timeseries"}
      [] t = "notice_state_counts" -> {"notice_filings_wide"}
      [] OTHER -> {}

Finished == pc \in {"done", "failed"}

\* C7, as claimed: when the run is over, a table that failed has not kept any
\* later table that does not depend on it from being attempted, and the run
\* has failed if and only if something failed (a failure of the load or of
\* the preparation counted with the failures of the tables).
C7_SiblingsStillAttempted ==
    Finished =>
        /\ \A t, u \in Tables :
            (FailedAt(t) /\ Position(u) > Position(t) /\ t \notin DependsOn(u))
                => Attempted(u)
        /\ (pc = "failed") <=> (\E step \in SeqToSet(Steps) : FailedAt(step))

\* C7, amended: a failure ends the run at the step that failed.  Once a step
\* (load, prepare, or the build or save of a table) has raised, the run is
\* over with a failed status; the tables of the steps before it are written,
\* the table of the failing step is not written, and the tables of the steps
\* after it are neither built nor written.  A run that ends without a failed
\* status has raised nowhere and has written all six tables.
C7_FailureEndsTheRun ==
    /\ (pc = "failed") <=> (traceback # NoTraceback)
    /\ traceback # NoTraceback =>
        /\ traceback[1] \in SeqToSet(Steps)
        /\ \A t \in Tables :
            /\ Position(t) < Position(traceback[1]) =>
                    (Attempted(t) /\ OutcomeOf(t).status = "returned" /\ Written(t))
            /\ Position(t) = Position(traceback[1]) => (Attempted(t) /\ ~Written(t))
            /\ Position(t) > Position(traceback[1]) => (~Attempted(t) /\ ~Written(t))
    /\ pc = "done" => \A t \in Tables : Written(t)

\* firm_timeseries raised in its builder, after firm_master was written
C7_Witness ==
    /\ pc = "failed"
    /\ traceback = <<"firm_timeseries", "TypeError float64 NA">>
    /\ Written("firm_master")
    /\ firm_master.table.rows # << >>

-----------------------------------------------------------------------------
(* build_silver.py: one run of the script over the raw Base A / Base B     *)
(* files, and the SILVER directory it leaves                               *)

\* the report periods of the raw file names, in sorted order; the last one
\* is eight digits that name no date
Periods == <<D20230101, D20230115, D20230401, D20231301>>

\* one merged row: the columns of the A row and of the B row (the tables of
\* the model share the key column only), and M["REPORT_DATE"] = perid
MergedRow(A, B, p, perid) ==
    [c \in A.columns \cup B.columns \cup {"REPORT_DATE"} |->
        IF c = "REPORT_DATE" THEN perid
        ELSE IF c \in A.columns THEN A.rows[p.l][c]
        ELSE B.rows[p.r][c]]

\* the frame of one period, M, from the outcome of perfect_merge
PeriodFrame(merged, A, B, perid) ==
    IF merged.status = "raised" THEN merged
    ELSE [status |-> "returned",
          table |-> [columns |-> A.columns \cup B.columns \cup {"REPORT_DATE"},
                     rows |-> [k \in 1..Len(merged.rows) |->
                                MergedRow(A, B, merged.rows[k], perid)]]]

\* the body of the loop for a period that has both files; require_keys and
\* enforce_nonblank of the loop repeat the checks perfect_merge makes itself
MergePeriod(A, B, perid) == PeriodFrame(perfect_merge(A, B, KEY), A, B, perid)

\* the periods that have an A file and a B file; the others are skipped
Paired(raw) ==
    SelectSeq(Periods, LAMBDA perid :
        perid \in DOMAIN raw.a_by_period /\ perid \in DOMAIN raw.b_by_period)

\* frames.append(M) ahead of the frames of the later periods; the first
\* exception ends the script
Appended(first, rest) ==
    IF first.status = "raised" THEN first
    ELSE IF rest.status = "raised" THEN rest
    ELSE [status |-> "returned", frames |-> <<first.table>> \o rest.frames]

\* the loop: the frames of the periods in turn, or the first exception
RECURSIVE Frames(_, _)
Frames(raw, periods) ==
    IF periods = << >> THEN [status |-> "returned", frames |-> << >>]
    ELSE Appended(MergePeriod(raw.a_by_period[Head(periods)],
                              raw.b_by_period[Head(periods)], Head(periods)),
                  Frames(raw, Tail(periods)))

\* the year and the month of a date
YearOf(d) == d \div 10000

MonthOf(d) == (d \div 100) % 100

PartitionColumns == {"report_year", "report_month"}

\* ia_base_merged["report_year"] = d.dt.year, ["report_month"] = d.dt.month
WithPartition(tbl) ==
    [columns |-> tbl.columns \cup PartitionColumns,
     rows |-> [i \in 1..Len(tbl.rows) |->
                [c \in tbl.columns \cup PartitionColumns |->
                    IF c = "report_year"
                    THEN YearOf(to_datetime_Ymd(tbl.rows[i]["REPORT_DATE"]))
                    ELSE IF c = "report_month"
                    THEN MonthOf(to_datetime_Ymd(tbl.rows[i]["REPORT_DATE"]))
                    ELSE tbl.rows[i][c]]]]

\* from the concatenated frames to the frame that is written, or the
\* exception that ends the script before anything is written
Partitioned(merged) ==
    IF IsEmpty(merged) THEN
        [status |-> "raised", error |-> "No data to write to silver"]
    ELSE IF \E i \in 1..Len(merged.rows) :
                to_datetime_Ymd(merged.rows[i]["REPORT_DATE"]) = NaT THEN
        [status |-> "raised", error |-> "ValueError to_datetime"]
    ELSE [status |-> "returned", table |-> WithPartition(merged)]

Concatenated(loop) ==
    IF loop.status = "raised" THEN loop ELSE Partitioned(concat(loop.frames))

\* the script up to the write: ia_base_merged, or the exception
build_silver(raw) == Concatenated(Frames(raw, Paired(raw)))

PartitionOf(r) == <<r["report_year"], r["report_month"]>>

PartitionsOf(tbl) == {PartitionOf(tbl.rows[i]) : i \in 1..Len(tbl.rows)}

\* the rows of one partition without the partition columns: what the parquet
\* writer puts in the partition's file, and g.drop(columns=[...]) of a group
PartitionRows(tbl, part) ==
    [columns |-> tbl.columns \ PartitionColumns,
     rows |-> Reindex([columns |-> tbl.columns \ PartitionColumns,
                       rows |-> SelectSeq(tbl.rows,
                                    LAMBDA r : PartitionOf(r) = part)],
                      tbl.columns \ PartitionColumns)]

\* the file one run leaves in a partition: part-0.parquet of
\* ds.write_dataset, or part.csv of the fallback
PartFile(tbl, part, name) ==
    [partition |-> part, name |-> name,
     table |-> IF name = PART_CSV THEN to_csv(PartitionRows(tbl, part))
               ELSE PartitionRows(tbl, part)]

\* the layout the run writes: parquet when pyarrow imports, else CSV
Layout(pyarrow) == IF pyarrow THEN PARQUET ELSE PART_CSV

\* the directory after the write: in every partition of the frame the file of
\* the run's layout is created or replaced (existing_data_behavior=
\* "overwrite_or_ignore", to_csv over an existing part.csv); every other file
\* is left as it is
WriteSilver(dir, tbl, name) ==
    [exists |-> TRUE,
     files |-> {f \in dir.files :
                    ~(f.partition \in PartitionsOf(tbl) /\ f.name = name)}
               \cup {PartFile(tbl, part, name) : part \in PartitionsOf(tbl)}]

MaxRuns == 2

\* the raw files of one period: none, a Base A file alone, both files with
\* the same filing (42 or 43), or a Base B file that lacks a filing of A
RawChoices(perid) ==
    IF perid = D20230101 THEN {"none", "k42", "k43", "imperfect"}
    ELSE IF perid = D20230401 THEN {"none", "a_only", "k42", "k43"}
    ELSE {"none", "k42"}

KeysA(choice) ==
    CASE choice = "k42" -> <<K42>>
      [] choice = "k43" -> <<K43>>
      [] choice = "a_only" -> <<K42>>
      [] choice = "imperfect" -> <<K42, K43>>

KeysB(choice) ==
    CASE choice = "k42" -> <<K42>>
      [] choice = "k43" -> <<K43>>
      [] choice = "imperfect" -> <<K42>>

BaseA(keys) ==
    [columns |-> {KEY, "1E1"},
     rows |-> [i \in 1..Len(keys) |->
                [c \in {KEY, "1E1"} |-> IF c = KEY THEN keys[i] ELSE T100]]]

BaseB(keys) ==
    [columns |-> {KEY, "1A"},
     rows |-> [i \in 1..Len(keys) |->
                [c \in {KEY, "1A"} |-> IF c = KEY THEN keys[i] ELSE NameX]]]

\* a_by_period and b_by_period of a run, after prefer_original and
\* read_csv_norm
RawOf(choice) ==
    [a_by_period |->
        [perid \in {q \in SeqToSet(Periods) : choice[q] # "none"} |->
            BaseA(KeysA(choice[perid]))],
     b_by_period |->
        [perid \in {q \in SeqToSet(Periods) : choice[q] \notin {"none", "a_only"}} |->
            BaseB(KeysB(choice[perid]))]]

RawInputs ==
    {RawOf(choice) :
        choice \in {ch \in [SeqToSet(Periods) -> {"none", "a_only", "k42", "k43",
                                                  "imperfect"}] :
                        \A q \in SeqToSet(Periods) : ch[q] \in RawChoices(q)}}

\* the end of a run: the frame it built and the directory it leaves, or
\* neither when the script raised before the write
Run(outcome, name) ==
    /\ ia_base_merged' = IF outcome.status = "returned" THEN outcome.table
                         ELSE NoTable
    /\ silver_dir' = IF outcome.status = "returned"
                     THEN WriteSilver(silver_dir, outcome.table, name)
                     ELSE silver_dir
    /\ runs' = runs + 1

\* one run of build_silver.py
BuildSilver ==
    /\ runs < MaxRuns
    /\ silver = NoTable
    /\ traceback = NoTraceback
    /\ \E raw \in RawInputs, pyarrow \in BOOLEAN :
        Run(build_silver(raw), Layout(pyarrow))
    /\ UNCHANGED <<mergeVars, goldVars, mainVars>>

\* load_silver(SILVER) after the runs
LoadSilver ==
    /\ silver = NoTable
    /\ traceback = NoTraceback
    /\ \E files \in GlobOrders(silver_dir) : Loaded(load_silver(silver_dir, files))
    /\ UNCHANGED <<prepared, reduceVars, noticeVars, mergeVars, silverVars>>
    /\ UNCHANGED <<pc, gold_dir, firm_master, firm_timeseries, firms_latest,
                   notice_state_counts>>

InitSilver ==
    /\ MergeIdle
    /\ GoldIdle
    /\ MainIdle
    /\ silver_dir = NoDirectory
    /\ ia_base_merged = NoTable
    /\ runs = 0

NextSilver == BuildSilver \/ LoadSilver

SpecSilver == InitSilver /\ [][NextSilver]_vars

-----------------------------------------------------------------------------
(* Claims about the SILVER partitions                                      *)

\* the rows the most recent run produced for a partition
Produced(part) == PartitionRows(ia_base_merged, part).rows

\* the partition of a loaded row, from its report date
LoadedPartition(r) ==
    <<YearOf(to_datetime_Ymd(r["REPORT_DATE"])),
      MonthOf(to_datetime_Ymd(r["REPORT_DATE"]))>>

\* the rows load_silver returned for a partition, without __source_file
LoadedFor(part) ==
    Reindex([columns |-> silver.columns \ {"__source_file"},
             rows |-> SelectSeq(silver.rows, LAMBDA r : LoadedPartition(r) = part)],
            silver.columns \ {"__source_file"})

\* C8: every partition the most recent run wrote holds exactly the rows of
\* that run: each file of the partition, in either layout, reads back as the
\* run's rows for the partition, and load_silver, once it has returned,
\* returned exactly those rows for the partition.
C8_PartitionFullyOverwritten ==
    \A part \in PartitionsOf(ia_base_merged) :
        /\ \A f \in silver_dir.files :
            f.partition = part => ReadFile(f).rows = Produced(part)
        /\ silver # NoTable => LoadedFor(part) = Produced(part)

-----------------------------------------------------------------------------
(* build_gold.py: build_firms_latest over firm master and firm timeseries  *)
(* tables                                                                  *)

MaxMasterRows == 3

MaxSeriesRows == 4

\* a float that holds a whole number
Whole(n) == [whole |-> n, frac |-> << >>]

\* a firm master row: the firm, its legal name and its employees vary
FirmMasterRow(crd, name, emp) ==
    [c \in MasterColumns |->
        CASE c = "CRD Number" -> crd
          [] c = "Firm Legal Name" -> name
          [] c = "Primary Business Name" -> NameX
          [] c = "Ownership Type" -> NA
          [] c = "Custody" -> crd = 100
          [] c = "Disciplinary Info Provided" -> FALSE
          [] c = "Employees - Total" -> emp
          [] c = "Regulatory AUM - Total (USD)" -> Whole(crd)
          [] c = "Regulatory AUM - Non-Discretionary (USD)" -> NaN]

\* firms 100 and 200, and firm 300 that has no timeseries row
FirmMasterPool ==
    {FirmMasterRow(100, NameX, 7), FirmMasterRow(200, NameY, 8),
     FirmMasterRow(300, NA, NA)}

\* a firm timeseries row: the firm, the period, the filing and the employees
\* vary
FirmSeriesRow(crd, rd, fid, emp) ==
    [c \in TimeseriesColumns |->
        CASE c = "CRD Number" -> crd
          [] c = "Report Date" -> to_datetime_Ymd(rd)
          [] c = "Filing ID" -> fid
          [] c = "Regulatory AUM - Discretionary (USD)" -> Whole(emp)
          [] c = "Regulatory AUM - Non-Discretionary (USD)" -> NaN
          [] c = "Regulatory AUM - Total (USD)" -> Whole(emp)
          [] c = "Employees - Total" -> emp]

\* two periods of firms 100 and 200, and one of firm 400 that firm master
\* does not have
FirmSeriesPool ==
    {FirmSeriesRow(100, D20230101, F9, 10), FirmSeriesRow(100, D20230401, F10, 11),
     FirmSeriesRow(200, D20230101, F10, 20), FirmSeriesRow(200, D20230401, NA, 21),
     FirmSeriesRow(400, D20230101, F9, 40)}

\* no two rows agree on the columns `subset`
DistinctOn(rows, subset) ==
    \A i, j \in 1..Len(rows) :
        OnColumns(rows[i], subset) = OnColumns(rows[j], subset) => i = j

\* firm master tables: one row per firm, in any order
FirmMasterTables ==
    {[columns |-> MasterColumns, rows |-> rs] :
        rs \in {q \in SeqsUpTo(FirmMasterPool, MaxMasterRows) :
                    DistinctOn(q, {"CRD Number"})}}

\* firm timeseries tables: one row per firm and period, in any order
FirmSeriesTables ==
    {[columns |-> TimeseriesColumns, rows |-> rs] :
        rs \in {q \in SeqsUpTo(FirmSeriesPool, MaxSeriesRows) :
                    DistinctOn(q, {"CRD Number", "Report Date"})}}

InitFirmsLatest ==
    /\ MergeIdle
    /\ GoldIdle
    /\ SilverIdle
    /\ pc = "idle"
    /\ traceback = NoTraceback
    /\ gold_dir = {}
    /\ firm_master \in {[status |-> "returned", table |-> t] : t \in FirmMasterTables}
    /\ firm_timeseries \in
            {[status |-> "returned", table |-> t] : t \in FirmSeriesTables}
    /\ firms_latest = NoResult
    /\ notice_state_counts = NoResult

\* firms_latest = build_firms_latest(firm_master, firm_timeseries)
BuildFirmsLatest ==
    /\ pc = "idle"
    /\ firm_master.status = "returned"
    /\ firm_timeseries.status = "returned"
    /\ firms_latest = NoResult
    /\ firms_latest' = [status |-> "returned",
                        table |-> build_firms_latest(firm_master.table,
                                                     firm_timeseries.table)]
    /\ UNCHANGED <<pc, traceback, gold_dir, firm_master, firm_timeseries,
                   notice_state_counts>>
    /\ UNCHANGED <<mergeVars, goldVars, silverVars>>

NextFirmsLatest == BuildFirmsLatest

SpecFirmsLatest == InitFirmsLatest /\ [][NextFirmsLatest]_vars

-----------------------------------------------------------------------------
(* Claims about build_firms_latest                                         *)

\* the firms that have a row
FirmsOf(rows) == {rows[i]["CRD Number"] : i \in 1..Len(rows)}

\* the row of `rows` for the firm is the one with its greatest Report Date
IsLatestOf(rows, j) ==
    \A i \in 1..Len(rows) :
        rows[i]["CRD Number"] = rows[j]["CRD Number"]
            => rows[i]["Report Date"] <= rows[j]["Report Date"]

\* row r takes the columns cols from some row of `rows` for the same firm
StaticFrom(r, rows) ==
    \E i \in 1..Len(rows) :
        /\ rows[i]["CRD Number"] = r["CRD Number"]
        /\ \A c \in StaticColumns : r[c] = rows[i][c]

\* row r takes the metrics of the firm's timeseries row with the greatest
\* Report Date
MetricsFromLatest(r, rows) ==
    \E j \in 1..Len(rows) :
        /\ rows[j]["CRD Number"] = r["CRD Number"]
        /\ IsLatestOf(rows, j)
        /\ \A c \in TimeseriesColumns : r[c] = rows[j][c]

\* the rows are in strictly ascending order of the firm
AscendingByFirm(rows) ==
    \A k \in 1..(Len(rows) - 1) : rows[k]["CRD Number"] < rows[k + 1]["CRD Number"]

\* C11: build_firms_latest returns exactly one row for each firm that has a
\* row in firm master and a row in firm timeseries, and no other row; each
\* row holds the static columns of the firm's master row and the metrics of
\* the firm's timeseries row with the greatest Report Date; the rows are in
\* ascending order of the firm.
C11_OneLatestRowPerSharedFirm ==
    firms_latest # NoResult =>
        /\ FirmsOf(firms_latest.table.rows)
                = FirmsOf(firm_master.table.rows) \cap FirmsOf(firm_timeseries.table.rows)
        /\ DistinctOn(firms_latest.table.rows, {"CRD Number"})
        /\ \A k \in 1..Len(firms_latest.table.rows) :
            /\ StaticFrom(firms_latest.table.rows[k], firm_master.table.rows)
            /\ MetricsFromLatest(firms_latest.table.rows[k], firm_timeseries.table.rows)
        /\ AscendingByFirm(firms_latest.table.rows)

\* two firms are in the output, one of them with an earlier period listed
\* ahead of its latest one; firm master lists a larger firm number first and
\* has a firm without timeseries row; firm timeseries has a firm that firm
\* master lacks
C11_Witness ==
    /\ firms_latest # NoResult
    /\ Len(firms_latest.table.rows) = 2
    /\ FirmsOf(firm_master.table.rows) \ FirmsOf(firm_timeseries.table.rows) # {}
    /\ FirmsOf(firm_timeseries.table.rows) \ FirmsOf(firm_master.table.rows) # {}
    /\ ~AscendingByFirm(firm_master.table.rows)
    /\ \E i, j \in 1..Len(firm_timeseries.table.rows) :
        /\ i < j
        /\ firm_timeseries.table.rows[i]["CRD Number"]
                = firm_timeseries.table.rows[j]["CRD Number"]
        /\ firm_timeseries.table.rows[i]["Report Date"]
                < firm_timeseries.table.rows[j]["Report Date"]

-----------------------------------------------------------------------------
(* build_gold.py: build_notice_state_counts over wide notice tables        *)

MaxWideRows == 3

\* the keys of a wide row: two periods of firms 100 and 200, one of firm 300
WideKeyPool ==
    {[crd |-> 100, report_date |-> to_datetime_Ymd(D20230101), filing_id |-> F9],
     [crd |-> 100, report_date |-> to_datetime_Ymd(D20230401), filing_id |-> F10],
     [crd |-> 200, report_date |-> to_datetime_Ymd(D20230101), filing_id |-> F9],
     [crd |-> 200, report_date |-> to_datetime_Ymd(D20230401), filing_id |-> NA],
     [crd |-> 300, report_date |-> to_datetime_Ymd(D20230101), filing_id |-> F10]}

\* the state codes of a wide table: none, one, or three
WideCodePool == {<< >>, <<"NY">>, <<"CA", "NY", "TX">>}

\* the rows a wide table over the state codes may hold: any key with any
\* state booleans
WideRowPool(codes) ==
    {WideRow(key, bools, codes) :
        key \in WideKeyPool, bools \in [SeqToSet(codes) -> BOOLEAN]}

\* the rows are in the order build_notice_filings_wide leaves: ascending by
\* firm and, for one firm, by Report Date
WideOrder(rows) ==
    \A k \in 1..(Len(rows) - 1) :
        RowCmp(rows[k], rows[k + 1], <<"CRD Number", "Report Date">>,
               <<TRUE, TRUE>>) < 0

\* the wide tables build_notice_filings_wide may return: one row per firm and
\* period, in its order, over the state codes; the table without rows has
\* the base columns only
WideTables ==
    {[columns |-> WideBase, state_codes |-> << >>, rows |-> << >>]}
    \cup UNION {
        {[columns |-> WideBase \cup SeqToSet(codes), state_codes |-> codes,
          rows |-> rs] :
            rs \in {q \in SeqsUpTo(WideRowPool(codes), MaxWideRows) :
                        q # << >> /\ WideOrder(q)}} :
        codes \in WideCodePool}

InitStateCounts ==
    /\ MergeIdle
    /\ PrepIdle
    /\ ReduceIdle
    /\ RunIdle
    /\ notice_wide \in {[status |-> "returned", table |-> t] : t \in WideTables}
    /\ notice_long = NoResult

\* notice_state_counts = build_notice_state_counts(notice_wide)
BuildNoticeStateCounts ==
    /\ pc = "idle"
    /\ notice_wide.status = "returned"
    /\ notice_state_counts = NoResult
    /\ notice_state_counts' =
            [status |-> "returned",
             table |-> build_notice_state_counts(notice_wide.table)]
    /\ UNCHANGED <<pc, traceback, gold_dir, firm_master, firm_timeseries,
                   firms_latest>>
    /\ UNCHANGED <<mergeVars, goldVars, silverVars>>

NextStateCounts == BuildNoticeStateCounts

SpecStateCounts == InitStateCounts /\ [][NextStateCounts]_vars

-----------------------------------------------------------------------------
(* Claims about build_notice_state_counts                                  *)

\* the firms whose row for their most recent Report Date has the state true
FirmsFiledLatest(rows, code) ==
    {rows[j]["CRD Number"] : j \in {i \in 1..Len(rows) :
                                        IsLatestOf(rows, i) /\ rows[i][code]}}

\* row a of the counts comes ahead of row b: the greater Firm Count, and for
\* equal counts the smaller state code
CountsAhead(a, b) ==
    \/ a["Firm Count"] > b["Firm Count"]
    \/ a["Firm Count"] = b["Firm Count"] /\ TextLess(a["State"], b["State"])

\* C12: build_notice_state_counts returns one row per state column of the
\* wide table; the Firm Count of a state is the number of firms whose row for
\* their most recent Report Date has the state true, so the rows of a firm's
\* earlier periods do not count; the rows are in descending order of Firm
\* Count and, for equal counts, in ascending order of the state code.
C12_CountsOfLatestPeriodOrdered ==
    notice_state_counts # NoResult =>
        /\ Len(notice_state_counts.table.rows) = Len(notice_wide.table.state_codes)
        /\ \A code \in SeqToSet(notice_wide.table.state_codes) :
            \E k \in 1..Len(notice_state_counts.table.rows) :
                /\ notice_state_counts.table.rows[k]["State"] = Spell[code]
                /\ notice_state_counts.table.rows[k]["Firm Count"]
                    = Cardinality(FirmsFiledLatest(notice_wide.table.rows, code))
        /\ \A k \in 1..(Len(notice_state_counts.table.rows) - 1) :
            CountsAhead(notice_state_counts.table.rows[k],
                        notice_state_counts.table.rows[k + 1])

\* three states are counted: TX with the greatest count comes first, ahead of
\* two states with one equal count of at least one firm; and a firm's earlier
\* period has a state true that its latest period has false
C12_Witness ==
    /\ notice_state_counts # NoResult
    /\ Len(notice_state_counts.table.rows) = 3
    /\ notice_state_counts.table.rows[1]["State"] = Spell["TX"]
    /\ notice_state_counts.table.rows[1]["Firm Count"]
            > notice_state_counts.table.rows[2]["Firm Count"]
    /\ notice_state_counts.table.rows[2]["Firm Count"]
            = notice_state_counts.table.rows[3]["Firm Count"]
    /\ notice_state_counts.table.rows[3]["Firm Count"] >= 1
    /\ \E i, j \in 1..Len(notice_wide.table.rows) :
        /\ notice_wide.table.rows[i]["CRD Number"]
                = notice_wide.table.rows[j]["CRD Number"]
        /\ notice_wide.table.rows[i]["Report Date"]
                < notice_wide.table.rows[j]["Report Date"]
        /\ \E code \in SeqToSet(notice_wide.table.state_codes) :
            notice_wide.table.rows[i][code] /\ ~notice_wide.table.rows[j][code]

=============================================================================
